---- MODULE Spec2Model ----
(***************************************************************************)
(* Model of the SEO analyzer (class SEOAnalyzer): the crawl traversal,     *)
(* the URL classifier, the page fetcher's bookkeeping and the sitemap      *)
(* comparison.                                                             *)
(*                                                                         *)
(* A JavaScript string is a sequence of tokens (substrings); the token     *)
(* alphabet is chosen so that every prefix and suffix the code tests       *)
(* ("/", "http", "#", ".png", the base URL, ...) is a whole number of      *)
(* tokens: "https://ex/a" is <<"http","s",":","/","/","ex","/","a">>.      *)
(***************************************************************************)
EXTENDS Naturals, Integers, Sequences, FiniteSets, TLC

VARIABLES
    startUrl,                   \* this.startUrl
    maxDepth,                   \* the maxDepth argument of analyze / crawl
    visitedUrls,                \* this.visitedUrls            (Set)
    staticResources,            \* this.staticResources        (Set)
    brokenLinks,                \* this.brokenLinks            (Array)
    internalLinks,              \* this.internalLinks          (Map URL -> Array)
    externalLinks,              \* this.externalLinks          (Map URL -> Array)
    pagesTitles,                \* this.pagesTitles            (Map)
    pagesDescriptions,          \* this.pagesDescriptions      (Map)
    pagesH1,                    \* this.pagesH1                (Map)
    pagesTitlesWarnings,        \* this.pagesTitlesWarnings        (Map URL -> length)
    pagesDescriptionsWarnings,  \* this.pagesDescriptionsWarnings  (Map URL -> length)
    pagesMetaTags,              \* this.pagesMetaTags          (Map)
    statusCodes,                \* this.statusCodes            (Map)
    sitemapUrls,                \* this.sitemapUrls            (Set)
    urlsNotInSitemap,           \* this.urlsNotInSitemap       (Set)
    urlsInSitemapButNotCrawled, \* this.urlsInSitemapButNotCrawled (Set)
    stack,                      \* the chain of suspended crawl() activations
    phase,                      \* position inside analyze()
    fetchLog,                   \* history: the URLs handed to fetchPage, in order
    fetchResults,               \* history: how each fetch settled, in order
    crawlCalls,                 \* history: the <<url, depth>> pairs handed to crawl
    loopCalls,                  \* history: <<page, link>> pairs the loop of crawl recursed into
    keywords,                   \* this.keywords               (Set)
    aiOptimizer,                \* this.aiOptimizer: which SEOAIOptimizer class was loaded
    suspended,                  \* the crawl() invocations that wait at an await while another runs
    sitemaps,                   \* the sitemap documents the site has served, by URL
    sitemapStack,               \* the chain of suspended processSitemapIndex() activations
    report,                     \* the report analyze() returns
    pageData,                   \* the argument of optimizeMetaTags
    aiReplies,                  \* what the OpenAI client answers to the three requests
    optimizedData,              \* the value optimizeMetaTags returns
    issues,                     \* the issues array analyze() collects after the crawl
    outstanding,                \* the requests of fetchPage that have not settled
    process,                    \* process.argv, OPENAI_API_KEY and the exit code of the script
    normalizeCall,              \* a call of normalizeUrl under observation and what it returned
    pageContentCall,            \* a call of analyzePageContent under observation and what it returned
    reportFiles                 \* what generateReport wrote to seo-report.json and seo-report.html

vars == <<startUrl, maxDepth, visitedUrls, staticResources, brokenLinks,
          internalLinks, externalLinks, pagesTitles, pagesDescriptions,
          pagesH1, pagesTitlesWarnings,
          pagesDescriptionsWarnings, pagesMetaTags, statusCodes, sitemapUrls, urlsNotInSitemap,
          urlsInSitemapButNotCrawled, stack, phase, fetchLog, fetchResults,
          crawlCalls, loopCalls, keywords, aiOptimizer, suspended, sitemaps,
          sitemapStack, report, pageData, aiReplies, optimizedData, issues,
          outstanding, process, normalizeCall, pageContentCall, reportFiles>>

crawlState == <<visitedUrls, staticResources, brokenLinks, internalLinks,
                externalLinks, pagesTitles, pagesDescriptions, pagesH1, pagesTitlesWarnings,
                pagesDescriptionsWarnings,
                pagesMetaTags, statusCodes>>

\* what crawl writes and fetchPage does not
parsedState == <<visitedUrls, staticResources, internalLinks, externalLinks,
                 pagesTitles, pagesDescriptions, pagesH1, pagesTitlesWarnings,
                 pagesDescriptionsWarnings, pagesMetaTags>>

sitemapState == <<sitemapUrls, urlsNotInSitemap, urlsInSitemapButNotCrawled>>

history == <<fetchLog, fetchResults, crawlCalls, loopCalls>>

sitemapRun == <<sitemaps, sitemapStack>>

metaTagsCall == <<pageData, aiReplies, optimizedData>>

(***************************************************************************)
(* Bounds of the model.                                                    *)
(***************************************************************************)
MaxSiteLinks == 3     \* the pages the crawl parses hold at most MaxSiteLinks <a> elements in all
MaxDepthBound == 2    \* maxDepth ranges over 0 .. MaxDepthBound
MaxSitemapEntries == 3  \* the sitemap documents of the site hold at most MaxSitemapEntries entries in all

(***************************************************************************)
(* Strings.                                                                *)
(***************************************************************************)
Range(s) == {s[i] : i \in 1..Len(s)}

EmptyMap == [x \in {} |-> 0]

\* String.prototype.startsWith
StartsWith(s, p) == Len(s) >= Len(p) /\ SubSeq(s, 1, Len(p)) = p

\* String.prototype.toLowerCase, token by token
ToLowerCase(s) == [i \in 1..Len(s) |-> IF s[i] = ".PNG" THEN ".png" ELSE s[i]]

\* String.prototype.endsWith for a one-token suffix
EndsWith(s, ext) == Len(s) >= 1 /\ s[Len(s)] = ext

Https == <<"http", "s", ":", "/", "/">>

\* the smallest index i >= from with s[i] = t, or Len(s) + 1
RECURSIVE IndexFrom(_, _, _)
IndexFrom(s, t, from) ==
    IF from > Len(s) THEN Len(s) + 1
    ELSE IF s[from] = t THEN from
    ELSE IndexFrom(s, t, from + 1)

\* the largest index i with s[i] = t, or 0
RECURSIVE LastIndexUpTo(_, _, _)
LastIndexUpTo(s, t, upto) ==
    IF upto < 1 THEN 0
    ELSE IF s[upto] = t THEN upto
    ELSE LastIndexUpTo(s, t, upto - 1)

(***************************************************************************)
(* new URL(link, base).href of the WHATWG URL parser, for the URL shapes   *)
(* of the model: absolute, protocol-relative, root-relative and            *)
(* path-relative references against an absolute hierarchical base.         *)
(***************************************************************************)
Invalid == <<"TypeError: Invalid URL">>

SchemeTokens == {"http", "s", "ftp"}

\* index of the ":" that ends the scheme of an absolute URL, or 0
SchemeEnd(u) ==
    LET i == IndexFrom(u, ":", 1)
    IN IF i >= 2 /\ i <= Len(u) /\ \A j \in 1..(i - 1) : u[j] \in SchemeTokens
       THEN i ELSE 0

\* index of the last token of the host of an absolute URL "scheme://host..."
HostEnd(u) == IndexFrom(u, "/", SchemeEnd(u) + 3) - 1

UrlProtocol(u) == SubSeq(u, 1, SchemeEnd(u))               \* "https:"
UrlHostname(u) == SubSeq(u, SchemeEnd(u) + 3, HostEnd(u))   \* "ex"
UrlOrigin(u) == SubSeq(u, 1, HostEnd(u))                    \* "https://ex"
UrlPath(u) == SubSeq(u, HostEnd(u) + 1, Len(u))             \* "/a" or ""

\* serialisation of an absolute URL: an empty host is rejected, an empty
\* path of a hierarchical URL is written "/"
Href(u) ==
    IF SchemeEnd(u) = 0 \/ ~StartsWith(SubSeq(u, SchemeEnd(u) + 1, Len(u)), <<"/", "/">>)
       \/ UrlHostname(u) = <<>>
    THEN Invalid
    ELSE IF UrlPath(u) = <<>> THEN u \o <<"/">> ELSE u

\* the directory of a path: everything up to and including its last "/"
PathDir(p) == IF p = <<>> THEN <<"/">> ELSE SubSeq(p, 1, LastIndexUpTo(p, "/", Len(p)))

\* schemes whose URLs have no host: the parser keeps them as they are
OpaqueSchemes == {"javascript", "mailto", "tel"}

URLResolve(link, base) ==
    IF Len(link) >= 2 /\ link[1] \in OpaqueSchemes /\ link[2] = ":" THEN link
    ELSE IF SchemeEnd(link) # 0 THEN Href(link)
    ELSE IF StartsWith(link, <<"/", "/">>) THEN Href(UrlProtocol(base) \o link)
    ELSE IF StartsWith(link, <<"/">>) THEN Href(UrlOrigin(base) \o link)
    ELSE Href(UrlOrigin(base) \o PathDir(UrlPath(base)) \o link)

(***************************************************************************)
(* URL classifier of SEOAnalyzer.                                          *)
(***************************************************************************)
\* getBaseUrl: `${parsedUrl.protocol}//${parsedUrl.hostname}`
getBaseUrl(inputUrl) == UrlProtocol(inputUrl) \o <<"/", "/">> \o UrlHostname(inputUrl)

baseUrl == getBaseUrl(startUrl)

\* isInternalUrl without the test of the base URL
isInternalUrl_SlashOnly(link) == StartsWith(link, <<"/">>)

isInternalUrl(link) ==
    \/ StartsWith(link, <<"/">>)
    \/ StartsWith(link, baseUrl)

\* normalizeUrl that joins every link that is not root-relative to the
\* directory of the page
normalizeUrl_Joined(link, currentUrl) ==
    IF StartsWith(link, <<"/">>) THEN URLResolve(link, baseUrl)
    ELSE Href(UrlOrigin(currentUrl) \o PathDir(UrlPath(currentUrl)) \o link)

normalizeUrl(link, currentUrl) ==
    IF StartsWith(link, <<"/">>) THEN URLResolve(link, baseUrl)
    ELSE IF ~StartsWith(link, <<"http">>) THEN URLResolve(link, currentUrl)
    ELSE link

ignoreExtensions ==
    {".jpg", ".jpeg", ".png", ".gif", ".pdf", ".doc", ".zip", ".css", ".js",
     ".webp", ".svg", ".ico", ".woff", ".woff2", ".ttf", ".eot"}

isStaticResource(url) == \E ext \in ignoreExtensions : EndsWith(ToLowerCase(url), ext)

\* shouldCrawl without the extension test
shouldCrawl_Always(url) == TRUE

\* the value shouldCrawl returns; its side effect on staticResources is in CrawlCall
shouldCrawl(url) == ~isStaticResource(url)

(***************************************************************************)
(* The inputs: start URLs, hrefs, page bodies and fetch outcomes.          *)
(***************************************************************************)
UrlHome == Https \o <<"ex", "/">>                \* "https://ex/"
UrlLogo == Https \o <<"ex", "/", "l", ".png">>   \* "https://ex/l.png"

StartUrls == {UrlHome, UrlLogo}

HrefRootRelative == <<"/", "a">>                 \* href="/a"
HrefPathRelative == <<"b">>                      \* href="b"
HrefExternal == Https \o <<"ot", "/">>           \* href="https://ot/"
HrefStatic == <<"/", "l", ".png">>               \* href="/l.png"

Hrefs == {HrefRootRelative, HrefPathRelative, HrefExternal, HrefStatic}

\* the href attributes of the <a> elements of a page, in document order
LinkLists == UNION {[1..n -> Hrefs] : n \in 0..MaxSiteLinks}

\* <title>, <meta name="description"> and the first <h1> of a page
PageMetas ==
    {[title |-> "", description |-> "", h1 |-> ""],
     [title |-> "T", description |-> "D", h1 |-> "H"]}

\* response.data of a page with markup; the pages without metadata are the
\* pages without links
Pages ==
    {[length |-> 1, title |-> c[1].title, description |-> c[1].description,
      h1 |-> c[1].h1, hrefs |-> c[2]] :
        c \in {d \in PageMetas \X LinkLists : d[1].title # "" \/ d[2] = <<>>}}

\* response.data of a response without a body: the empty string
EmptyHtml == [length |-> 0, title |-> "", description |-> "", h1 |-> "", hrefs |-> <<>>]

SuccessStatuses == {200, 204}      \* statuses for which axios resolves
ErrorStatuses == {404}             \* statuses for which axios rejects with error.response

\* a page with a title and no links
EmptyPage(title) ==
    [length |-> 1, title |-> title, description |-> "D", h1 |-> "H", hrefs |-> <<>>]

\* a body with markup, for the responses whose status is not 200
SomePage == CHOOSE page \in Pages : page.title # "" /\ page.hrefs = <<HrefRootRelative>>

(***************************************************************************)
(* Maps and the insertion-ordered Set of JavaScript.                       *)
(***************************************************************************)
MapSet(m, k, v) == [x \in (DOMAIN m) \cup {k} |-> IF x = k THEN v ELSE m[x]]

\* a collection that puts a new element in front
SetAdd_Front(s, x) == IF x \in {s[i] : i \in 1..Len(s)} THEN s ELSE <<x>> \o s

SetAdd(s, x) == IF x \in Range(s) THEN s ELSE Append(s, x)

(***************************************************************************)
(* fetchPage: what it records for each way axios.get can settle.           *)
(***************************************************************************)
\* try branch: axios resolved with response.status and response.data
fetchPageResolved(url, status) ==
    /\ statusCodes' = MapSet(statusCodes, url, status)
    /\ UNCHANGED brokenLinks

\* fetchPage whose catch branch forgets brokenLinks.push for an error status
fetchPageHttpError_NoPush(url, status) ==
    /\ statusCodes' = MapSet(statusCodes, url, status)
    /\ UNCHANGED brokenLinks

\* catch branch, error.response present: the server answered with an error status
fetchPageHttpError(url, status) ==
    /\ statusCodes' = MapSet(statusCodes, url, status)
    /\ brokenLinks' = Append(brokenLinks, [url |-> url, status |-> status])

\* fetchPage whose catch branch forgets brokenLinks.push for a transport failure
fetchPageTransportError_NoPush(url) ==
    /\ statusCodes' = MapSet(statusCodes, url, 0)
    /\ UNCHANGED brokenLinks

\* catch branch, no error.response: DNS, connection or timeout failure
fetchPageTransportError(url) ==
    /\ statusCodes' = MapSet(statusCodes, url, 0)
    /\ brokenLinks' = Append(brokenLinks, [url |-> url, status |-> 0, error |-> "message"])

(***************************************************************************)
(* extractMetadata: the maps it fills for a page.  optimizeMetaTags        *)
(* catches every failure of the AI collaborator, so aiSuggestions is set   *)
(* whenever the page has a title or a description.                         *)
(***************************************************************************)
\* text.length of the texts of the model: "T29" is a title of 29
\* characters, "D160" a description of 160; the other texts have one
StringLength(text) ==
    CASE text = "" -> 0
      [] text = "T29" -> 29 [] text = "T30" -> 30 [] text = "T60" -> 60 [] text = "T61" -> 61
      [] text = "D119" -> 119 [] text = "D120" -> 120
      [] text = "D160" -> 160 [] text = "D161" -> 161
      [] OTHER -> 1

titleLengthMin == 30
titleLengthMax == 60
descriptionLengthMin == 120
descriptionLengthMax == 160

\* the length test with its bounds taken as out of range
outsideLength_Inclusive(text, min, max) ==
    StringLength(text) <= min \/ StringLength(text) >= max

\* "text.length < min || text.length > max"
outsideLength(text, min, max) == StringLength(text) < min \/ StringLength(text) > max

extractMetadata(page, url) ==
    /\ pagesTitles' = IF page.title # "" THEN MapSet(pagesTitles, url, page.title)
                      ELSE pagesTitles
    /\ pagesDescriptions' = IF page.description # ""
                            THEN MapSet(pagesDescriptions, url, page.description)
                            ELSE pagesDescriptions
    /\ pagesMetaTags' = MapSet(pagesMetaTags, url,
                               [description |-> page.description,
                                aiSuggestions |-> (page.title # "" \/ page.description # "")])
    /\ pagesH1' = IF page.h1 # "" THEN MapSet(pagesH1, url, page.h1) ELSE pagesH1
    /\ pagesTitlesWarnings' =
           IF page.title # "" /\ outsideLength(page.title, titleLengthMin, titleLengthMax)
           THEN MapSet(pagesTitlesWarnings, url, StringLength(page.title))
           ELSE pagesTitlesWarnings
    /\ pagesDescriptionsWarnings' =
           IF page.description # ""
              /\ outsideLength(page.description, descriptionLengthMin, descriptionLengthMax)
           THEN MapSet(pagesDescriptionsWarnings, url, StringLength(page.description))
           ELSE pagesDescriptionsWarnings

(***************************************************************************)
(* extractLinks: one pass over the <a> elements of a page.                 *)
(***************************************************************************)
\* the filter without its tests of mailto: and tel:
isIgnoredHref_NoMail(href) ==
    \/ StartsWith(href, <<"#">>)
    \/ StartsWith(href, <<"javascript", ":">>)

isIgnoredHref(href) ==
    \/ StartsWith(href, <<"#">>)
    \/ StartsWith(href, <<"javascript", ":">>)
    \/ StartsWith(href, <<"mailto", ":">>)
    \/ StartsWith(href, <<"tel", ":">>)

\* the body of the callback of $("a").each for one element
extractLinksEach(acc, href, currentUrl) ==
    IF href = <<>> \/ isIgnoredHref(href) THEN acc
    ELSE LET normalizedUrl == normalizeUrl(href, currentUrl)
         IN IF normalizedUrl = Invalid THEN acc
            ELSE [links |-> SetAdd(acc.links, normalizedUrl),
                  currentInternalLinks |->
                      IF isInternalUrl(href) THEN Append(acc.currentInternalLinks, normalizedUrl)
                      ELSE acc.currentInternalLinks,
                  currentExternalLinks |->
                      IF isInternalUrl(href) THEN acc.currentExternalLinks
                      ELSE Append(acc.currentExternalLinks, normalizedUrl)]

\* the pass with its try around the whole loop: the first href that throws
\* ends it
RECURSIVE extractLinksFold_Abort(_, _, _)
extractLinksFold_Abort(acc, hrefs, currentUrl) ==
    IF hrefs = <<>> THEN acc
    ELSE IF ~isIgnoredHref(Head(hrefs)) /\ normalizeUrl(Head(hrefs), currentUrl) = Invalid
    THEN acc
    ELSE extractLinksFold_Abort(extractLinksEach(acc, Head(hrefs), currentUrl),
                                Tail(hrefs), currentUrl)

RECURSIVE extractLinksFold(_, _, _)
extractLinksFold(acc, hrefs, currentUrl) ==
    IF hrefs = <<>> THEN acc
    ELSE extractLinksFold(extractLinksEach(acc, Head(hrefs), currentUrl), Tail(hrefs), currentUrl)

extractLinks(hrefs, currentUrl) ==
    extractLinksFold([links |-> <<>>, currentInternalLinks |-> <<>>,
                      currentExternalLinks |-> <<>>], hrefs, currentUrl)

(***************************************************************************)
(* analyzePage and the analyzePageContent of the AI collaborator.  Two     *)
(* SEOAIOptimizer classes exist: the one of src/seo-ai-optimizer.js talks  *)
(* to openai.completions and has no analyzePageContent, the other talks to *)
(* openai.responses and has it.                                            *)
(***************************************************************************)
Optimizers == {"completions", "responses"}

\* an entry of a keyword list: a JSON string, or a JSON value of another type
Keyword(text) == [type |-> "string", text |-> text]
NonString(text) == [type |-> "number", text |-> text]

\* config.seo.keywords
ConfigKeywords == {Keyword(<<"k">>)}

\* a field of the JSON object of a reply: absent, not an array, or an array
Absent == [type |-> "absent", items |-> <<>>]
NotArray == [type |-> "string", items |-> <<>>]
Array(items) == [type |-> "array", items |-> items]

\* what openai.responses.create gives analyzePageContent: a rejection, no
\* output_text, text without a JSON object, or a JSON object
ReplyOf(kind, main, longTail, topics, structure, suggestions) ==
    [kind |-> kind, mainKeywords |-> main, longTailKeywords |-> longTail,
     relatedTopics |-> topics, contentStructure |-> structure,
     seoSuggestions |-> suggestions]
ReplyThrows == ReplyOf("throws", Absent, Absent, Absent, Absent, Absent)
ReplyEmpty == ReplyOf("empty", Absent, Absent, Absent, Absent, Absent)
ReplyUnparsable == ReplyOf("text", Absent, Absent, Absent, Absent, Absent)
ReplyJSON(main, longTail) == ReplyOf("json", main, longTail, Absent, Absent, Absent)

PageContentReplies ==
    {ReplyThrows, ReplyEmpty, ReplyUnparsable}
    \cup {ReplyJSON(main, longTail) :
            main \in {Absent, NotArray, Array(<<>>), Array(<<Keyword(<<"m">>)>>),
                      Array(<<NonString(<<"5">>)>>)},
            longTail \in {Absent, Array(<<Keyword(<<"m">>)>>)}}

\* the required field left as the reply has it
requiredArray_Kept(field) == field

\* analyzePageContent, for one required field of the parsed reply: an
\* absent field and a field that is not an array become []
requiredArray(field) == IF field.type = "array" THEN field ELSE Array(<<>>)

\* the object analyzePageContent returns from its catch blocks and for a
\* response without output_text
EmptyAnalysis ==
    [mainKeywords |-> Array(<<>>), longTailKeywords |-> Array(<<>>),
     relatedTopics |-> Array(<<>>), contentStructure |-> Array(<<>>),
     seoSuggestions |-> Array(<<>>)]

\* analyzePageContent of the openai.responses class: a rejected request, a
\* response without output_text and a text that cleanAndParseJSON cannot
\* parse give the empty object, a parsed object is returned with its five
\* required fields made arrays
analyzePageContent(reply) ==
    IF reply.kind = "json"
    THEN [mainKeywords |-> requiredArray(reply.mainKeywords),
          longTailKeywords |-> requiredArray(reply.longTailKeywords),
          relatedTopics |-> requiredArray(reply.relatedTopics),
          contentStructure |-> requiredArray(reply.contentStructure),
          seoSuggestions |-> requiredArray(reply.seoSuggestions)]
    ELSE EmptyAnalysis

\* this.keywords after analyzePage: the call of analyzePageContent throws a
\* TypeError when the class has no such method, and the catch returns null
analyzePage(reply) ==
    IF aiOptimizer = "completions" THEN keywords
    ELSE LET pageAnalysis == analyzePageContent(reply)
         IN keywords \cup Range(pageAnalysis.mainKeywords.items)
                \cup Range(pageAnalysis.longTailKeywords.items)

(***************************************************************************)
(* crawl(url, depth, maxDepth).  Each activation is a frame of stack; the  *)
(* topmost frame is the one that runs, the others wait in                  *)
(* "await this.crawl(link, depth + 1, maxDepth)".                          *)
(***************************************************************************)
Frame(url, depth) == [url |-> url, depth |-> depth, pc |-> "call", links |-> <<>>]

Top == stack[Len(stack)]

\* the activation on top returns; analyze goes on when the first one
\* returns and no other invocation of crawl is pending
Return ==
    /\ stack' = SubSeq(stack, 1, Len(stack) - 1)
    /\ phase' = IF Len(stack) = 1 /\ suspended = <<>> THEN "crawled" ELSE phase

ReplaceTop(f) == [stack EXCEPT ![Len(stack)] = f]

\* crawl without the depth test
depthExceeded_Never(depth) == FALSE

\* the depth test one level late
depthExceeded_Late(depth) == depth > maxDepth + 1

depthExceeded(depth) == depth > maxDepth

\* crawl without the visitedUrls.has test
alreadyVisited_Never(url) == FALSE

\* a URL counts as visited only while its fetch is in flight
alreadyVisited_InFlight(url) == url \in visitedUrls /\ url \notin DOMAIN statusCodes

\* a URL counts as visited once its fetch has settled
alreadyVisited_Settled(url) == url \in DOMAIN statusCodes

alreadyVisited(url) == url \in visitedUrls

\* crawl without visitedUrls.add
markVisited_Forgotten(url) == visitedUrls

\* this.visitedUrls.add(url)
markVisited(url) == visitedUrls \cup {url}

\* the requests that are out: the axios.get of fetchPage(url), the
\* axios.get of fetchSitemap(url), and a call of the OpenAI client made by
\* the method of SEOAIOptimizer for the page at url, each from its call until
\* it settles
PageRequest(url) == [kind |-> "page", url |-> url]
SitemapRequest(url) == [kind |-> "sitemap", url |-> url]
AIRequest(method, url) == [kind |-> method, url |-> url]

\* "const { html, status } = this.fetchPage(url)": crawl goes on with a
\* promise, whose status is undefined, and returns while the request is out
awaitFetchPage_NotAwaited == Return

\* "await this.fetchPage(url)": the activation waits for the request
awaitFetchPage == stack' = ReplaceTop([Top EXCEPT !.pc = "fetch"]) /\ UNCHANGED phase

\* crawl up to the first suspension: the guard, visitedUrls.add and the call
\* of fetchPage, which starts axios.get
CrawlCall ==
    /\ phase = "crawl" /\ stack # <<>> /\ Top.pc = "call"
    /\ crawlCalls' = crawlCalls \cup {<<Top.url, Top.depth>>}
    /\ IF depthExceeded(Top.depth) \/ alreadyVisited(Top.url)
       THEN /\ Return
            /\ UNCHANGED <<visitedUrls, staticResources, fetchLog, outstanding>>
       ELSE IF ~shouldCrawl(Top.url)
       THEN /\ staticResources' = staticResources \cup {Top.url}
            /\ Return
            /\ UNCHANGED <<visitedUrls, fetchLog, outstanding>>
       ELSE /\ visitedUrls' = markVisited(Top.url)
            /\ fetchLog' = Append(fetchLog, Top.url)
            /\ outstanding' = outstanding \cup {PageRequest(Top.url)}
            /\ awaitFetchPage
            /\ UNCHANGED staticResources
    /\ UNCHANGED <<process, normalizeCall, pageContentCall, reportFiles, startUrl, maxDepth, brokenLinks, internalLinks, externalLinks,
                   pagesTitles, pagesDescriptions, pagesH1, pagesTitlesWarnings,
                   pagesDescriptionsWarnings, pagesMetaTags,
                   statusCodes, sitemapState, fetchResults, loopCalls, keywords,
                   aiOptimizer, suspended, sitemapRun, report, metaTagsCall, issues>>

\* "status !== 200 && !html"
stopsAfterFetch_And(status, html) == status # 200 /\ html.length = 0

\* "status !== 200 || !html"
stopsAfterFetch(status, html) == status # 200 \/ html.length = 0

FetchResult(url, kind, status, html) ==
    [url |-> url, kind |-> kind, status |-> status, body |-> html.length > 0,
     hrefs |-> IF stopsAfterFetch(status, html) THEN <<>> ELSE html.hrefs,
     anchors |-> IF stopsAfterFetch(status, html) THEN 0 ELSE Len(html.hrefs)]

\* axios resolved: fetchPage returns { html: response.data, status }, then
\* crawl either stops or runs analyzePage, extractMetadata and extractLinks.
\* analyzePage catches every error; what it writes is pagesMetaTags[url],
\* which extractMetadata then replaces, and this.keywords.
\* the page parsed by an extractLinks that sets this.externalLinks only for
\* a page with an external link
parsePage_ExternalWhenAny(html, reply) ==
    /\ keywords' = analyzePage(reply)
    /\ extractMetadata(html, Top.url)
    /\ LET r == extractLinks(html.hrefs, Top.url)
       IN /\ internalLinks' = MapSet(internalLinks, Top.url, r.currentInternalLinks)
          /\ externalLinks' = IF r.currentExternalLinks = <<>> THEN externalLinks
                               ELSE MapSet(externalLinks, Top.url, r.currentExternalLinks)
          /\ stack' = ReplaceTop([url |-> Top.url, depth |-> Top.depth, pc |-> "loop",
                                  links |-> r.links])
    /\ UNCHANGED phase

\* crawl from "cheerio.load(html)" to the loop, for the page html and the
\* reply to analyzePageContent
parsePage(html, reply) ==
    /\ keywords' = analyzePage(reply)
    /\ extractMetadata(html, Top.url)
    /\ LET r == extractLinks(html.hrefs, Top.url)
       IN /\ internalLinks' = MapSet(internalLinks, Top.url, r.currentInternalLinks)
          /\ externalLinks' = MapSet(externalLinks, Top.url, r.currentExternalLinks)
          /\ stack' = ReplaceTop([url |-> Top.url, depth |-> Top.depth, pc |-> "loop",
                                  links |-> r.links])
    /\ UNCHANGED phase

FetchResolved(status, html, reply) ==
    /\ phase = "crawl" /\ stack # <<>> /\ Top.pc = "fetch"
    /\ fetchPageResolved(Top.url, status)
    /\ outstanding' = outstanding \ {PageRequest(Top.url)}
    /\ fetchResults' = Append(fetchResults, FetchResult(Top.url, "resolved", status, html))
    /\ IF stopsAfterFetch(status, html)
       THEN /\ Return
            /\ UNCHANGED <<internalLinks, externalLinks, pagesTitles, pagesDescriptions,
                           pagesH1, pagesTitlesWarnings,
                           pagesDescriptionsWarnings, pagesMetaTags, keywords>>
       ELSE parsePage(html, reply)
    /\ UNCHANGED <<process, normalizeCall, pageContentCall, reportFiles, startUrl, maxDepth, visitedUrls, staticResources, sitemapState,
                   fetchLog, crawlCalls, loopCalls, aiOptimizer, suspended,
                   sitemapRun, report, metaTagsCall, issues>>

\* axios rejected with a response: fetchPage returns { html: "", status }
FetchHttpError(status) ==
    /\ phase = "crawl" /\ stack # <<>> /\ Top.pc = "fetch"
    /\ fetchPageHttpError(Top.url, status)
    /\ outstanding' = outstanding \ {PageRequest(Top.url)}
    /\ fetchResults' = Append(fetchResults, FetchResult(Top.url, "httpError", status, EmptyHtml))
    /\ stopsAfterFetch(status, EmptyHtml)
    /\ Return
    /\ UNCHANGED <<process, normalizeCall, pageContentCall, reportFiles, startUrl, maxDepth, visitedUrls, staticResources, internalLinks,
                   externalLinks, pagesTitles, pagesDescriptions, pagesH1, pagesTitlesWarnings,
                   pagesDescriptionsWarnings,
                   pagesMetaTags, sitemapState, fetchLog, crawlCalls, loopCalls,
                   keywords, aiOptimizer, suspended, sitemapRun, report, metaTagsCall, issues>>

\* fetchPage rethrows the transport failure: it unwinds every crawl activation
afterTransportError_Throws == stack' = <<>> /\ phase' = "crawled"

\* what follows the catch branch without a response: fetchPage returns
\* { html: "", status: 0 } and crawl returns to the loop that called it
afterTransportError == stopsAfterFetch(0, EmptyHtml) /\ Return

\* axios rejected without a response
FetchTransportError ==
    /\ phase = "crawl" /\ stack # <<>> /\ Top.pc = "fetch"
    /\ fetchPageTransportError(Top.url)
    /\ outstanding' = outstanding \ {PageRequest(Top.url)}
    /\ fetchResults' = Append(fetchResults, FetchResult(Top.url, "transport", 0, EmptyHtml))
    /\ afterTransportError
    /\ UNCHANGED <<process, normalizeCall, pageContentCall, reportFiles, startUrl, maxDepth, visitedUrls, staticResources, internalLinks,
                   externalLinks, pagesTitles, pagesDescriptions, pagesH1, pagesTitlesWarnings,
                   pagesDescriptionsWarnings,
                   pagesMetaTags, sitemapState, fetchLog, crawlCalls, loopCalls,
                   keywords, aiOptimizer, suspended, sitemapRun, report, metaTagsCall, issues>>

\* one iteration of "for (const link of links)", or the end of the loop
CrawlLoop ==
    /\ phase = "crawl" /\ stack # <<>> /\ Top.pc = "loop"
    /\ IF Top.links = <<>>
       THEN Return /\ UNCHANGED loopCalls
       ELSE LET link == Head(Top.links)
                rest == [Top EXCEPT !.links = Tail(Top.links)]
            IN IF isInternalUrl(link)
               THEN /\ stack' = Append(ReplaceTop(rest), Frame(link, Top.depth + 1))
                    /\ loopCalls' = loopCalls \cup {<<Top.url, link>>}
                    /\ UNCHANGED phase
               ELSE /\ stack' = ReplaceTop(rest)
                    /\ UNCHANGED <<phase, loopCalls>>
    /\ UNCHANGED <<process, normalizeCall, pageContentCall, reportFiles, startUrl, maxDepth, crawlState, sitemapState, fetchLog,
                   fetchResults, crawlCalls, keywords, aiOptimizer, suspended,
                   sitemapRun, report, metaTagsCall,
                   issues, outstanding>>

(***************************************************************************)
(* The crawl of analyze(maxDepth): crawl(this.startUrl, 0, maxDepth).      *)
(***************************************************************************)
NoReport == [returned |-> FALSE]

\* the analyzer is used through require(), not run as a script, and no call
\* of normalizeUrl is under observation
EnvUnset == [set |-> FALSE, text |-> <<>>]
EnvValue(text) == [set |-> TRUE, text |-> text]
NoProcess == [argv |-> <<>>, apiKey |-> EnvUnset, exited |-> FALSE, exitCode |-> 0]
NoNormalizeCall == [link |-> <<>>, currentUrl |-> <<>>, results |-> <<>>]
NoPageContentCall == [reply |-> <<>>, results |-> <<>>]
NoReportFiles == [json |-> NoReport, html |-> NoReport]
NothingWritten == pageContentCall = NoPageContentCall /\ reportFiles = NoReportFiles
AsLibrary == process = NoProcess /\ normalizeCall = NoNormalizeCall /\ NothingWritten

NoPageData == [title |-> <<>>, description |-> <<>>, keywords |-> <<>>]

\* the state the constructor leaves
Constructed ==
    /\ visitedUrls = {}
    /\ staticResources = {}
    /\ brokenLinks = <<>>
    /\ internalLinks = EmptyMap
    /\ externalLinks = EmptyMap
    /\ pagesTitles = EmptyMap
    /\ pagesDescriptions = EmptyMap
    /\ pagesH1 = EmptyMap
    /\ pagesTitlesWarnings = EmptyMap
    /\ pagesDescriptionsWarnings = EmptyMap
    /\ pagesMetaTags = EmptyMap
    /\ statusCodes = EmptyMap
    /\ sitemapUrls = {}
    /\ urlsNotInSitemap = {}
    /\ urlsInSitemapButNotCrawled = {}
    /\ fetchLog = <<>>
    /\ fetchResults = <<>>
    /\ crawlCalls = {}
    /\ loopCalls = {}
    /\ keywords = ConfigKeywords
    /\ suspended = <<>>
    /\ sitemaps = EmptyMap
    /\ sitemapStack = <<>>
    /\ report = NoReport
    /\ issues = <<>>
    /\ outstanding = {}

\* optimizeMetaTags is not under observation
NoMetaTagsCall ==
    /\ pageData = NoPageData
    /\ aiReplies = <<>>
    /\ optimizedData = NoPageData

\* analyze(maxDepth) of an analyzer built on the SEOAIOptimizer of
\* src/seo-ai-optimizer.js, up to the return of crawl
Init ==
    /\ AsLibrary
    /\ startUrl \in StartUrls
    /\ maxDepth \in 0..MaxDepthBound
    /\ aiOptimizer = "completions"
    /\ Constructed
    /\ NoMetaTagsCall
    /\ stack = <<Frame(startUrl, 0)>>
    /\ phase = "crawl"

\* the responses axios can resolve with
Responses ==
    {[status |-> 200, html |-> html] : html \in Pages \cup {EmptyHtml}}
    \cup {[status |-> status, html |-> html] :
            status \in SuccessStatuses \ {200}, html \in {SomePage}}

\* the number of <a> elements of the pages parsed so far
RECURSIVE AnchorsIn(_)
AnchorsIn(results) ==
    IF results = <<>> THEN 0 ELSE Head(results).anchors + AnchorsIn(Tail(results))

\* the responses the site can still serve: the ones crawl does not parse, and
\* the pages whose <a> elements fit
ResponsesLeft ==
    LET left == MaxSiteLinks - AnchorsIn(fetchResults)
    IN {r \in Responses : stopsAfterFetch(r.status, r.html) \/ Len(r.html.hrefs) <= left}

\* the replies analyzePageContent can get: a class without the method sends
\* no request
RepliesHeard == IF aiOptimizer = "responses" THEN PageContentReplies ELSE {ReplyThrows}

Next ==
    \/ CrawlCall
    \/ \E r \in ResponsesLeft, reply \in RepliesHeard : FetchResolved(r.status, r.html, reply)
    \/ \E status \in ErrorStatuses : FetchHttpError(status)
    \/ FetchTransportError
    \/ CrawlLoop

Spec == Init /\ [][Next]_vars

\* every pending continuation is eventually run, every request eventually settles
FairSpec == Spec /\ WF_vars(Next)

(***************************************************************************)
(* compareCrawlWithSitemap, applied to arbitrary sets of crawled and       *)
(* sitemap URLs.                                                           *)
(***************************************************************************)
\* first loop with the test negated
urlsOnlyIn_Both(these, those) == {u \in these : u \in those}

\* one loop of compareCrawlWithSitemap: the members of these that those lacks
urlsOnlyIn(these, those) == {u \in these : ~(u \in those)}

compareCrawlWithSitemap ==
    /\ urlsNotInSitemap' = urlsNotInSitemap \cup urlsOnlyIn(visitedUrls, sitemapUrls)
    /\ urlsInSitemapButNotCrawled' =
           urlsInSitemapButNotCrawled \cup urlsOnlyIn(sitemapUrls, visitedUrls)
    /\ UNCHANGED sitemapUrls

CompareCrawlWithSitemap ==
    /\ phase = "compare"
    /\ compareCrawlWithSitemap
    /\ phase' = "compared"
    /\ UNCHANGED <<process, normalizeCall, pageContentCall, reportFiles, startUrl, maxDepth, crawlState, stack, history, keywords,
                   aiOptimizer, suspended, sitemapRun, report, metaTagsCall,
                   issues, outstanding>>

UrlA == Https \o <<"ex", "/", "a">>      \* "https://ex/a"
UrlB == Https \o <<"ex", "/", "b">>      \* "https://ex/b"
UrlD == Https \o <<"ex", "/", "d">>      \* "https://ex/d"

CompareUrls == {UrlHome, UrlA, UrlB, UrlD}

InitCompare ==
    /\ AsLibrary
    /\ startUrl = UrlHome
    /\ maxDepth \in 0..MaxDepthBound
    /\ aiOptimizer = "completions"
    /\ keywords = ConfigKeywords
    /\ suspended = <<>>
    /\ sitemaps = EmptyMap
    /\ sitemapStack = <<>>
    /\ report = NoReport
    /\ pageData = NoPageData
    /\ aiReplies = <<>>
    /\ optimizedData = NoPageData
    /\ issues = <<>>
    /\ outstanding = {}
    /\ visitedUrls \in SUBSET CompareUrls
    /\ sitemapUrls \in SUBSET CompareUrls
    /\ staticResources = {}
    /\ brokenLinks = <<>>
    /\ internalLinks = EmptyMap
    /\ externalLinks = EmptyMap
    /\ pagesTitles = EmptyMap
    /\ pagesDescriptions = EmptyMap
    /\ pagesH1 = EmptyMap
    /\ pagesTitlesWarnings = EmptyMap
    /\ pagesDescriptionsWarnings = EmptyMap
    /\ pagesMetaTags = EmptyMap
    /\ statusCodes = EmptyMap
    /\ urlsNotInSitemap = {}
    /\ urlsInSitemapButNotCrawled = {}
    /\ stack = <<>>
    /\ phase = "compare"
    /\ fetchLog = <<>>
    /\ fetchResults = <<>>
    /\ crawlCalls = {}
    /\ loopCalls = {}

NextCompare == CompareCrawlWithSitemap

SpecCompare == InitCompare /\ [][NextCompare]_vars

(***************************************************************************)
(* The issues array of analyze(), built when crawl has returned.           *)
(***************************************************************************)
\* the keys of a Map or the members of a Set of page URLs, in insertion
\* order: every one of them is written for a URL in the order of the fetches
InsertionOrder(urls) == SelectSeq(fetchLog, LAMBDA u : u \in urls)

\* one string of the issues array: what it reports, the page and the number
Issue(kind, url, count) == [kind |-> kind, url |-> url, count |-> count]

\* the body of the three loops of analyze over pagesTitles, pagesDescriptions
\* and pagesH1, for one entry of the map
entryIssues(map, url, missing, wrongLength, min, max) ==
    IF map[url] = "" THEN <<Issue(missing, url, 0)>>
    ELSE IF wrongLength # "" /\ (StringLength(map[url]) < min \/ StringLength(map[url]) > max)
    THEN <<Issue(wrongLength, url, StringLength(map[url]))>>
    ELSE <<>>

RECURSIVE entriesIssues(_, _, _, _, _, _)
entriesIssues(map, entries, missing, wrongLength, min, max) ==
    IF entries = <<>> THEN <<>>
    ELSE entryIssues(map, Head(entries), missing, wrongLength, min, max)
             \o entriesIssues(map, Tail(entries), missing, wrongLength, min, max)

\* "if (collection.length > 0) issues.push(...)"
countIssue(kind, count) == IF count > 0 THEN <<Issue(kind, <<>>, count)>> ELSE <<>>

\* the issues array of analyze, as it is when fetchSitemap is called
collectIssues ==
    entriesIssues(pagesTitles, InsertionOrder(DOMAIN pagesTitles),
                  "missingTitle", "titleLength", titleLengthMin, titleLengthMax)
        \o entriesIssues(pagesDescriptions, InsertionOrder(DOMAIN pagesDescriptions),
                         "missingDescription", "descriptionLength",
                         descriptionLengthMin, descriptionLengthMax)
        \o entriesIssues(pagesH1, InsertionOrder(DOMAIN pagesH1), "missingH1", "", 0, 0)
        \o countIssue("brokenLinks", Len(brokenLinks))
        \o countIssue("notInSitemap", Cardinality(urlsNotInSitemap))
        \o countIssue("notCrawled", Cardinality(urlsInSitemapButNotCrawled))

(***************************************************************************)
(* The sitemap of analyze(): fetchSitemap, parseSitemap,                   *)
(* processSitemapIndex and processSitemap.  The site serves one document   *)
(* per sitemap URL; sitemaps records the documents served so far, so a URL *)
(* requested again answers as it did before.                               *)
(***************************************************************************)
\* `${this.baseUrl}/sitemap.xml`
sitemapUrl == baseUrl \o <<"/", "sitemap", ".xml">>

LocTop == Https \o <<"ex", "/", "sitemap", ".xml">>   \* "https://ex/sitemap.xml"
LocOne == Https \o <<"ex", "/", "s1", ".xml">>        \* "https://ex/s1.xml"
LocTwo == Https \o <<"ex", "/", "s2", ".xml">>        \* "https://ex/s2.xml"

SitemapLocs == {LocTop, LocOne, LocTwo}

\* a <sitemap> or <url> element without <loc>: "item.loc[0]" throws a TypeError
NoLoc == <<>>

\* the <loc> texts of the <sitemap> elements of an index, of the <url>
\* elements of a urlset
ChildEntries(n) == UNION {[1..k -> SitemapLocs \cup {NoLoc}] : k \in 0..n}
UrlEntries(n) == UNION {[1..k -> {UrlHome, UrlA, NoLoc}] : k \in 0..n}

\* what a GET of a sitemap URL gives: no response, an empty body, text that
\* is not XML, XML with another root, a <sitemapindex>, a <urlset>
Document(kind, entries) == [kind |-> kind, entries |-> entries]

FailingDocuments ==
    {Document(kind, <<>>) : kind \in {"unreachable", "empty", "malformed", "other"}}

\* the documents with at most n entries
Documents(n) ==
    FailingDocuments
    \cup {Document("sitemapindex", e) : e \in ChildEntries(n)}
    \cup {Document("urlset", e) : e \in UrlEntries(n)}

\* the number of entries of the documents served so far
EntriesServed ==
    LET RECURSIVE Sum(_)
        Sum(locs) == IF locs = {} THEN 0
                     ELSE LET l == CHOOSE x \in locs : TRUE
                          IN Len(sitemaps[l].entries) + Sum(locs \ {l})
    IN Sum(DOMAIN sitemaps)

\* the documents the site can serve for loc
DocumentsAt(loc) ==
    IF loc \in DOMAIN sitemaps THEN {sitemaps[loc]}
    ELSE Documents(MaxSitemapEntries - EntriesServed)

\* processSitemap: sitemapUrls.add for each <url>, up to the first one
\* without <loc>, where it throws
processSitemap(entries) ==
    sitemapUrls \cup Range(SubSeq(entries, 1, IndexFrom(entries, NoLoc, 1) - 1))

\* an activation of processSitemapIndex: the sitemap it expands, the
\* <sitemap> entries still to come, and the parity of the number of
\* expansions of the same sitemap that wait below it
SitemapFrame(loc, entries, turn) == [loc |-> loc, rest |-> entries, turn |-> turn]

SitemapTopFrame == sitemapStack[Len(sitemapStack)]

\* the position of the activation that expands loc, or 0
RECURSIVE ExpansionOf(_, _)
ExpansionOf(loc, i) ==
    IF i = 0 THEN 0
    ELSE IF sitemapStack[i].loc = loc THEN i
    ELSE ExpansionOf(loc, i - 1)

\* processSitemapIndex(result.sitemapindex) starts below the activations in
\* waiting.  A sitemap whose expansion is already waiting is expanded as it
\* was before and reaches this point again: the activations from that one
\* on are never resumed, and the model restarts them, one level deeper,
\* instead of stacking them without bound.
EnterSitemapIndex(waiting, loc, entries) ==
    LET i == ExpansionOf(loc, Len(sitemapStack))
        kept == IF i = 0 THEN waiting ELSE SubSeq(sitemapStack, 1, i - 1)
        turn == IF i = 0 THEN 0 ELSE 1 - sitemapStack[i].turn
    IN sitemapStack' = Append(kept, SitemapFrame(loc, entries, turn))

\* a GET of a sitemap that records its failure as fetchPage does
sitemapGet_AsFetchPage(loc, doc) ==
    IF doc.kind = "unreachable"
    THEN /\ statusCodes' = MapSet(statusCodes, loc, 0)
         /\ brokenLinks' = Append(brokenLinks, [url |-> loc, status |-> 0])
    ELSE UNCHANGED <<statusCodes, brokenLinks>>

\* "await axios.get(sitemapUrl, ...)" of fetchSitemap and of
\* processSitemapIndex: the response is returned or the error logged, and
\* neither this.statusCodes nor this.brokenLinks is written
sitemapGet(loc, doc) == UNCHANGED <<statusCodes, brokenLinks>>

\* analyze without the try around parseSitemap: the rejection leaves analyze
afterSitemapError_Uncaught == phase' = "failed"

\* the catch of analyze for a rejected parseSitemap: log, then on to
\* compareCrawlWithSitemap, as when fetchSitemap returned null or ""
afterSitemapError == phase' = "compare"

\* what analyze does between the return of crawl and the return of
\* parseSitemap: the issues array, fetchSitemap, and parseSitemap of the
\* document at /sitemap.xml
FetchSitemap(doc) ==
    /\ phase = "crawled"
    /\ doc \in DocumentsAt(sitemapUrl)
    /\ issues' = collectIssues
    /\ sitemapGet(sitemapUrl, doc)
    /\ outstanding' = outstanding \ {SitemapRequest(sitemapUrl)}
    /\ sitemaps' = MapSet(sitemaps, sitemapUrl, doc)
    /\ IF doc.kind \in {"unreachable", "empty"}
       THEN /\ phase' = "compare"
            /\ UNCHANGED <<sitemapUrls, sitemapStack>>
       ELSE IF doc.kind \in {"malformed", "other"}
       THEN /\ afterSitemapError
            /\ UNCHANGED <<sitemapUrls, sitemapStack>>
       ELSE IF doc.kind = "urlset"
       THEN /\ sitemapUrls' = processSitemap(doc.entries)
            /\ IF NoLoc \in Range(doc.entries) THEN afterSitemapError ELSE phase' = "compare"
            /\ UNCHANGED sitemapStack
       ELSE /\ EnterSitemapIndex(<<>>, sitemapUrl, doc.entries)
            /\ phase' = "sitemapindex"
            /\ UNCHANGED sitemapUrls
    /\ UNCHANGED <<process, normalizeCall, pageContentCall, reportFiles, startUrl, maxDepth, parsedState, urlsNotInSitemap,
                   urlsInSitemapButNotCrawled, stack, history, keywords,
                   aiOptimizer, suspended, report, metaTagsCall>>

\* processSitemapIndex without the try inside the loop: the error ends the
\* expansion and reaches the catch of analyze
afterSubSitemapError_Uncaught(waiting) == sitemapStack' = <<>> /\ phase' = "compare"

\* the catch inside the loop of processSitemapIndex: log, next <sitemap>
afterSubSitemapError(waiting) == sitemapStack' = waiting /\ UNCHANGED phase

\* one iteration of "for (const sitemap of sitemapindex.sitemap)": the GET of
\* the sub-sitemap and parseSitemap of its body
ProcessSitemapIndex(doc) ==
    /\ phase = "sitemapindex" /\ sitemapStack # <<>> /\ SitemapTopFrame.rest # <<>>
    /\ LET loc == Head(SitemapTopFrame.rest)
           waiting == [sitemapStack EXCEPT ![Len(sitemapStack)].rest = Tail(@)]
       IN IF loc = NoLoc
          THEN /\ doc = Document("unreachable", <<>>)
               /\ afterSubSitemapError(waiting)
               /\ UNCHANGED <<sitemaps, sitemapUrls, outstanding, statusCodes, brokenLinks>>
          ELSE /\ doc \in DocumentsAt(loc)
               /\ sitemapGet(loc, doc)
               /\ outstanding' = outstanding \ {SitemapRequest(loc)}
               /\ sitemaps' = MapSet(sitemaps, loc, doc)
               /\ IF doc.kind \in {"unreachable", "empty", "malformed", "other"}
                  THEN /\ afterSubSitemapError(waiting)
                       /\ UNCHANGED sitemapUrls
                  ELSE IF doc.kind = "urlset"
                  THEN /\ sitemapUrls' = processSitemap(doc.entries)
                       /\ IF NoLoc \in Range(doc.entries)
                          THEN afterSubSitemapError(waiting)
                          ELSE sitemapStack' = waiting /\ UNCHANGED phase
                  ELSE /\ EnterSitemapIndex(waiting, loc, doc.entries)
                       /\ UNCHANGED <<sitemapUrls, phase>>
    /\ UNCHANGED <<process, normalizeCall, pageContentCall, reportFiles, startUrl, maxDepth, parsedState, urlsNotInSitemap,
                   urlsInSitemapButNotCrawled, stack, history, keywords,
                   aiOptimizer, suspended, report, metaTagsCall, issues>>

\* the loop of processSitemapIndex is over: the activation returns, and
\* analyze goes on when the first one returns
ProcessSitemapIndexReturn ==
    /\ phase = "sitemapindex" /\ sitemapStack # <<>> /\ SitemapTopFrame.rest = <<>>
    /\ sitemapStack' = SubSeq(sitemapStack, 1, Len(sitemapStack) - 1)
    /\ phase' = IF Len(sitemapStack) = 1 THEN "compare" ELSE phase
    /\ UNCHANGED <<process, normalizeCall, pageContentCall, reportFiles, startUrl, maxDepth, crawlState, sitemapState, sitemaps, stack,
                   history, keywords, aiOptimizer, suspended, report, metaTagsCall,
                   issues, outstanding>>

(***************************************************************************)
(* generateReport, and generateHtmlReport as far as it can throw.          *)
(***************************************************************************)
RECURSIVE TotalLinks(_, _)
TotalLinks(map, pages) ==
    IF pages = {} THEN 0
    ELSE LET p == CHOOSE x \in pages : TRUE
         IN Len(map[p]) + TotalLinks(map, pages \ {p})

\* analyzeKeywords(text) throws where "keyword.toLowerCase()" meets a keyword
\* that is not a string; with an empty text it returns before the loop
analyzeKeywordsThrows(text) == text # "" /\ \E keyword \in keywords : keyword.type # "string"

\* generateHtmlReport calls analyzeKeywords(page.title) and
\* analyzeKeywords(page.description) for every entry of report.pageMeta
generateHtmlReportThrows ==
    \E url \in visitedUrls :
        \/ url \in DOMAIN pagesTitles /\ analyzeKeywordsThrows(pagesTitles[url])
        \/ url \in DOMAIN pagesDescriptions /\ analyzeKeywordsThrows(pagesDescriptions[url])

\* "map.get(url) || fallback"
getOr(map, url, fallback) ==
    IF url \in DOMAIN map /\ map[url] # fallback THEN map[url] ELSE fallback

\* a status of the report: a number, or the string "unknown"
StatusNumber(status) == [known |-> TRUE, code |-> status]
StatusUnknown == [known |-> FALSE, code |-> 0]

\* "this.statusCodes.get(url) || 'unknown'"
statusOrUnknown(url) ==
    IF url \in DOMAIN statusCodes /\ statusCodes[url] # 0
    THEN StatusNumber(statusCodes[url])
    ELSE StatusUnknown

\* one element of report.pageMeta
pageMetaRecord(url) ==
    [url |-> url,
     status |-> statusOrUnknown(url),
     title |-> getOr(pagesTitles, url, ""),
     titleLength |-> StringLength(getOr(pagesTitles, url, "")),
     description |-> getOr(pagesDescriptions, url, ""),
     descriptionLength |-> StringLength(getOr(pagesDescriptions, url, "")),
     h1 |-> getOr(pagesH1, url, ""),
     internalLinksCount |-> Len(getOr(internalLinks, url, <<>>)),
     externalLinksCount |-> Len(getOr(externalLinks, url, <<>>)),
     metaTags |-> getOr(pagesMetaTags, url, [description |-> "", aiSuggestions |-> FALSE])]

\* the report object of generateReport, without its date; the elements of
\* staticResources without their type
generateReport ==
    [returned |-> TRUE,
     baseUrl |-> baseUrl,
     issues |-> <<>>,
     pageMeta |-> [i \in 1..Len(InsertionOrder(visitedUrls)) |->
                      pageMetaRecord(InsertionOrder(visitedUrls)[i])],
     staticResources |-> {[url |-> url, status |-> statusOrUnknown(url)] :
                             url \in staticResources},
     crawlStats |->
         [totalUrlsCrawled |-> Cardinality(visitedUrls),
          totalStaticResources |-> Cardinality(staticResources),
          brokenLinks |-> Len(brokenLinks),
          totalInternalLinks |-> TotalLinks(internalLinks, DOMAIN internalLinks),
          totalExternalLinks |-> TotalLinks(externalLinks, DOMAIN externalLinks),
          urlsWithoutTitle |-> {url \in visitedUrls : url \notin DOMAIN pagesTitles},
          urlsWithoutDescription |->
              {url \in visitedUrls : url \notin DOMAIN pagesDescriptions},
          urlsWithoutH1 |-> {url \in visitedUrls : url \notin DOMAIN pagesH1},
          urlsWithInvalidTitleLength |-> pagesTitlesWarnings,
          urlsWithInvalidDescriptionLength |-> pagesDescriptionsWarnings],
     sitemapStats |->
         [totalUrlsInSitemap |-> Cardinality(sitemapUrls),
          urlsNotInSitemap |-> urlsNotInSitemap,
          urlsInSitemapButNotCrawled |-> urlsInSitemapButNotCrawled],
     brokenLinks |-> brokenLinks]

\* the files of generateReport: "fs.writeFileSync("seo-report.json", ...)" of
\* the report object, then generateHtmlReport(report), which writes
\* seo-report.html unless it throws; seo-report.pdf is printed from that file
writtenFiles(written) ==
    [json |-> written,
     html |-> IF generateHtmlReportThrows THEN NoReport ELSE written]

\* steps 4 and 5 of analyze: generateReport, which ends with
\* generateHtmlReport, "report.issues = issues", then generatePdfReport,
\* which catches its own errors
GenerateReport ==
    /\ phase = "compared"
    /\ IF generateHtmlReportThrows
       THEN phase' = "failed" /\ UNCHANGED report
       ELSE phase' = "returned" /\ report' = [generateReport EXCEPT !.issues = issues]
    /\ reportFiles' = writtenFiles(generateReport)
    /\ UNCHANGED <<process, normalizeCall, pageContentCall, startUrl, maxDepth, crawlState, sitemapState, sitemapRun, stack,
                   history, keywords, aiOptimizer, suspended, metaTagsCall,
                   issues, outstanding>>

(***************************************************************************)
(* analyze() from the return of crawl on, after crawls of two small sites. *)
(***************************************************************************)
\* crawl of a site whose start page has a title and no links
CrawledOnePage ==
    /\ visitedUrls = {UrlHome}
    /\ brokenLinks = <<>>
    /\ internalLinks = MapSet(EmptyMap, UrlHome, <<>>)
    /\ externalLinks = MapSet(EmptyMap, UrlHome, <<>>)
    /\ statusCodes = MapSet(EmptyMap, UrlHome, 200)
    /\ fetchLog = <<UrlHome>>
    /\ fetchResults = <<FetchResult(UrlHome, "resolved", 200, EmptyPage("T"))>>
    /\ crawlCalls = {<<UrlHome, 0>>}
    /\ loopCalls = {}

\* crawl of a site whose start page links to /a, which answers 404
CrawledBrokenLink ==
    /\ visitedUrls = {UrlHome, UrlA}
    /\ brokenLinks = <<[url |-> UrlA, status |-> 404]>>
    /\ internalLinks = MapSet(EmptyMap, UrlHome, <<UrlA>>)
    /\ externalLinks = MapSet(EmptyMap, UrlHome, <<>>)
    /\ statusCodes = MapSet(MapSet(EmptyMap, UrlHome, 200), UrlA, 404)
    /\ fetchLog = <<UrlHome, UrlA>>
    /\ fetchResults = <<FetchResult(UrlHome, "resolved", 200, SomePage),
                        FetchResult(UrlA, "httpError", 404, EmptyHtml)>>
    /\ crawlCalls = {<<UrlHome, 0>>, <<UrlA, 1>>}
    /\ loopCalls = {<<UrlHome, UrlA>>}

InitSitemap ==
    /\ AsLibrary
    /\ startUrl = UrlHome
    /\ maxDepth = 1
    /\ aiOptimizer = "completions"
    /\ CrawledOnePage \/ CrawledBrokenLink
    /\ staticResources = {}
    /\ pagesTitles = MapSet(EmptyMap, UrlHome, "T")
    /\ pagesDescriptions = MapSet(EmptyMap, UrlHome, "D")
    /\ pagesH1 = MapSet(EmptyMap, UrlHome, "H")
    /\ pagesTitlesWarnings = MapSet(EmptyMap, UrlHome, StringLength("T"))
    /\ pagesDescriptionsWarnings = MapSet(EmptyMap, UrlHome, StringLength("D"))
    /\ pagesMetaTags = MapSet(EmptyMap, UrlHome, [description |-> "D", aiSuggestions |-> TRUE])
    /\ sitemapUrls = {}
    /\ urlsNotInSitemap = {}
    /\ urlsInSitemapButNotCrawled = {}
    /\ stack = <<>>
    /\ phase = "crawled"
    /\ keywords = ConfigKeywords
    /\ suspended = <<>>
    /\ sitemaps = EmptyMap
    /\ sitemapStack = <<>>
    /\ report = NoReport
    /\ pageData = NoPageData
    /\ aiReplies = <<>>
    /\ optimizedData = NoPageData
    /\ issues = <<>>
    /\ outstanding = {}

NextSitemap ==
    \/ \E doc \in Documents(MaxSitemapEntries) : FetchSitemap(doc)
    \/ \E doc \in Documents(MaxSitemapEntries) : ProcessSitemapIndex(doc)
    \/ ProcessSitemapIndexReturn
    \/ CompareCrawlWithSitemap
    \/ GenerateReport

SpecSitemap == InitSitemap /\ [][NextSitemap]_vars

\* every request settles and every continuation is eventually run
FairSitemap == SpecSitemap /\ WF_vars(NextSitemap)

(***************************************************************************)
(* optimizeMetaTags of the two SEOAIOptimizer classes.  The text of a      *)
(* reply is a sequence of tokens: "{", "}", ",", the members of a JSON     *)
(* object ("optimizedTitle:X" is "optimizedTitle": "X") and other words.   *)
(***************************************************************************)
\* a JSON string, as a value of a parsed object
String(text) == [type |-> "string", items |-> text]

\* the members a reply can hold: key and value
Members ==
    [m \in {"optimizedTitle:X", "optimizedTitle:", "optimizedDescription:Y",
            "suggestions:[s]", "suggestions:str"} |->
        CASE m = "optimizedTitle:X" -> [key |-> "optimizedTitle", value |-> String(<<"X">>)]
          [] m = "optimizedTitle:" -> [key |-> "optimizedTitle", value |-> String(<<>>)]
          [] m = "optimizedDescription:Y" ->
                 [key |-> "optimizedDescription", value |-> String(<<"Y">>)]
          [] m = "suggestions:[s]" ->
                 [key |-> "suggestions", value |-> Array(<<Keyword(<<"s">>)>>)]
          [] m = "suggestions:str" -> [key |-> "suggestions", value |-> String(<<"str">>)]]

\* JSON.parse accepts the text: an object of members
IsJSONObject(text) ==
    /\ Len(text) >= 2 /\ text[1] = "{" /\ text[Len(text)] = "}"
    /\ \A i \in 2..(Len(text) - 1) : text[i] \in DOMAIN Members

\* parsed[key] of JSON.parse(text): the value of the last member with that key
Field(text, key) ==
    LET at == {i \in 2..(Len(text) - 1) : Members[text[i]].key = key}
    IN IF at = {} THEN Absent
       ELSE Members[text[CHOOSE i \in at : \A j \in at : j <= i]].value

\* cleanAndParseJSON cuts the text to what lies between the first "{" and
\* the last "}"; the result is <<>> where it throws
cleanAndParseJSON(text) ==
    LET startIndex == IndexFrom(text, "{", 1)
        cleanedText == SubSeq(text, startIndex, Len(text))
        endIndex == LastIndexUpTo(cleanedText, "}", Len(cleanedText))
        finalText == SubSeq(cleanedText, 1, endIndex)
    IN IF startIndex > Len(text) \/ endIndex = 0 \/ ~IsJSONObject(finalText)
       THEN <<>> ELSE finalText

\* a JavaScript value in a test: "" , undefined and null are falsy
Falsy(value) == value.type = "absent" \/ (value.type = "string" /\ value.items = <<>>)

\* what the OpenAI client gives one request: a rejection, or a text
Throws == [kind |-> "throws", text |-> <<>>]
Text(tokens) == [kind |-> "text", text |-> tokens]

\* "parsedResponse[key] || fallback" of the openai.responses class, with the
\* fallbacks of its catch blocks and of an empty output_text
parsedOr(reply, key, fallback) ==
    IF reply.kind = "throws" \/ reply.text = <<>> THEN fallback
    ELSE LET parsed == cleanAndParseJSON(reply.text)
         IN IF parsed = <<>> \/ Falsy(Field(parsed, key)) THEN fallback
            ELSE Field(parsed, key)

optimizeTitle(currentTitle, reply) == parsedOr(reply, "optimizedTitle", currentTitle)

optimizeDescription(currentDescription, reply) ==
    parsedOr(reply, "optimizedDescription", currentDescription)

generateKeywordSuggestions(currentKeywords, reply) ==
    parsedOr(reply, "suggestions", currentKeywords)

\* String.prototype.split(","), the pieces as keywords
RECURSIVE Split(_, _)
Split(text, piece) ==
    IF text = <<>> THEN <<Keyword(piece)>>
    ELSE IF Head(text) = "," THEN <<Keyword(piece)>> \o Split(Tail(text), <<>>)
    ELSE Split(Tail(text), Append(piece, Head(text)))

\* optimizeTitle and optimizeDescription of the openai.completions class:
\* "response.choices[0].text.trim()", the current value in the catch
completionOr(reply, fallback) ==
    IF reply.kind = "throws" THEN fallback ELSE String(reply.text)

\* generateKeywordSuggestions of the openai.completions class
completionKeywordsOr(reply, currentKeywords) ==
    IF reply.kind = "throws" THEN currentKeywords ELSE Array(Split(reply.text, <<>>))

\* optimizeMetaTags; replies are the answers to its three requests, in order
optimizeMetaTags(data, replies) ==
    IF aiOptimizer = "responses"
    THEN [title |-> optimizeTitle(data.title, replies[1]),
          description |-> optimizeDescription(data.description, replies[2]),
          suggestions |-> generateKeywordSuggestions(data.keywords, replies[3])]
    ELSE [title |-> completionOr(replies[1], data.title),
          description |-> completionOr(replies[2], data.description),
          suggestions |-> completionKeywordsOr(replies[3], data.keywords)]

\* "await this.aiOptimizer.optimizeMetaTags(pageData)" of extractMetadata
OptimizeMetaTags ==
    /\ phase = "optimize"
    /\ optimizedData' = optimizeMetaTags(pageData, aiReplies)
    /\ phase' = "optimized"
    /\ UNCHANGED <<process, normalizeCall, pageContentCall, reportFiles, startUrl, maxDepth, crawlState, sitemapState, sitemapRun, stack,
                   history, keywords, aiOptimizer, suspended, report, pageData,
                   aiReplies, issues, outstanding>>

\* the texts of the replies
Texts ==
    {<<>>,
     <<"hello">>,
     <<"a", ",", "b">>,
     <<"{", "}">>,
     <<"{", "optimizedTitle:X">>,
     <<"{", "optimizedTitle:", "}">>,
     <<"{", "suggestions:str", "}">>,
     <<"{", "optimizedTitle:X", "optimizedDescription:Y", "suggestions:[s]", "}">>,
     <<"Sure", "{", "optimizedTitle:X", "optimizedDescription:Y", "suggestions:[s]", "}", "!">>}

Replies == {Throws} \cup {Text(tokens) : tokens \in Texts}

\* pageData of extractMetadata: title or description present, this.keywords
PageDatas ==
    {[title |-> String(title), description |-> String(<<"D">>),
      keywords |-> Array(<<Keyword(<<"k">>)>>)] : title \in {<<>>, <<"T">>}}

InitMetaTags ==
    /\ AsLibrary
    /\ startUrl = UrlHome
    /\ maxDepth = 0
    /\ aiOptimizer \in Optimizers
    /\ Constructed
    /\ stack = <<>>
    /\ phase = "optimize"
    /\ pageData \in PageDatas
    /\ aiReplies \in [1..3 -> Replies]
    /\ optimizedData = NoPageData

NextMetaTags == OptimizeMetaTags

SpecMetaTags == InitMetaTags /\ [][NextMetaTags]_vars

(***************************************************************************)
(* analyze(maxDepth) from the constructor to its return, with either       *)
(* SEOAIOptimizer class and every reply of the AI, on sites of two pages.  *)
(***************************************************************************)
\* the pages of the sites: with and without a title, with and without a
\* link, and one without title, description and h1
AnalyzedPages ==
    {EmptyPage("T"), EmptyPage(""), SomePage,
     [length |-> 1, title |-> "", description |-> "", h1 |-> "", hrefs |-> <<>>]}

InitAnalyze ==
    /\ AsLibrary
    /\ startUrl = UrlHome
    /\ maxDepth \in 0..1
    /\ aiOptimizer \in Optimizers
    /\ Constructed
    /\ NoMetaTagsCall
    /\ stack = <<Frame(startUrl, 0)>>
    /\ phase = "crawl"

NextAnalyze ==
    \/ CrawlCall
    \/ \E html \in AnalyzedPages, reply \in RepliesHeard : FetchResolved(200, html, reply)
    \/ FetchTransportError
    \/ CrawlLoop
    \/ \E doc \in {Document("unreachable", <<>>), Document("urlset", <<UrlHome>>)} :
           FetchSitemap(doc)
    \/ CompareCrawlWithSitemap
    \/ GenerateReport

SpecAnalyze == InitAnalyze /\ [][NextAnalyze]_vars

(***************************************************************************)
(* Vocabulary of the properties.                                           *)
(***************************************************************************)
\* the positions of the brokenLinks entries of a URL
BrokenEntries(u) == {j \in 1..Len(brokenLinks) : brokenLinks[j].url = u}

\* the URLs that have a page record
PageRecordKeys ==
    DOMAIN pagesTitles \cup DOMAIN pagesDescriptions \cup DOMAIN pagesH1
        \cup DOMAIN pagesMetaTags

\* the pages whose links were extracted
ProcessedPages == DOMAIN internalLinks \cup DOMAIN externalLinks

\* the links extractLinks returned for a page
LinkSet(p) ==
    (IF p \in DOMAIN internalLinks THEN Range(internalLinks[p]) ELSE {})
        \cup (IF p \in DOMAIN externalLinks THEN Range(externalLinks[p]) ELSE {})

LinkedUrls == UNION {LinkSet(p) : p \in ProcessedPages}

CalledUrls == {c[1] : c \in crawlCalls}

KnownUrls ==
    CalledUrls \cup LinkedUrls \cup visitedUrls \cup staticResources
        \cup DOMAIN statusCodes \cup Range(fetchLog)

Results == Range(fetchResults)

(***************************************************************************)
(* Properties of the crawl.                                                *)
(***************************************************************************)
\* C1: no URL is handed to fetchPage twice, however many pages link to it,
\* and every URL handed to fetchPage is in visitedUrls from the moment its
\* fetch begins.
AtMostOnceVisitation ==
    /\ \A i, j \in 1..Len(fetchLog) : fetchLog[i] = fetchLog[j] => i = j
    /\ \A i \in 1..Len(fetchLog) : fetchLog[i] \in visitedUrls
    /\ \A k \in 1..Len(stack) : stack[k].pc = "fetch" => stack[k].url \in visitedUrls

\* a finished crawl in which two loops recursed into the same fetched URL
LinkedTwiceFetchedOnce ==
    /\ phase = "crawled"
    /\ \E u \in Range(fetchLog) : Cardinality({c \in loopCalls : c[2] = u}) >= 2

\* C2: every visited URL was passed to crawl with a depth of at most
\* maxDepth; a URL that crawl only ever received with a depth above maxDepth
\* is neither visited nor fetched.
DepthBoundRespected ==
    /\ \A u \in visitedUrls : \E c \in crawlCalls : c[1] = u /\ c[2] <= maxDepth
    /\ \A u \in CalledUrls :
           (\A c \in crawlCalls : c[1] = u => c[2] > maxDepth)
               => u \notin visitedUrls /\ u \notin Range(fetchLog)

\* a finished crawl that turned a crawlable URL away at depth maxDepth + 1 only
SkippedByDepth ==
    /\ phase = "crawled"
    /\ \E c \in crawlCalls :
           /\ c[2] = maxDepth + 1
           /\ shouldCrawl(c[1])
           /\ c[1] \notin visitedUrls

\* C3: when every request settles and every continuation runs, crawl
\* returns, with no URL fetched twice.
TraversalTerminates ==
    <>(/\ phase = "crawled"
       /\ \A i, j \in 1..Len(fetchLog) : fetchLog[i] = fetchLog[j] => i = j)

\* a finished crawl of a site with a link cycle (p = q: a page linking to itself)
TerminatedOnCycle ==
    /\ phase = "crawled"
    /\ \E p, q \in visitedUrls : <<p, q>> \in loopCalls /\ <<q, p>> \in loopCalls

\* C4 as stated: after the crawl every static URL linked from a crawled page
\* is unfetched, unvisited, in staticResources, and in no other collection.
StaticOnlyInStaticResources ==
    phase = "crawled" =>
        \A u \in LinkedUrls : isStaticResource(u) =>
            /\ u \notin Range(fetchLog)
            /\ u \notin visitedUrls
            /\ u \in staticResources
            /\ u \notin DOMAIN statusCodes \cup PageRecordKeys \cup ProcessedPages
            /\ BrokenEntries(u) = {}

\* C4 amended: a static URL is never fetched, never visited and never a key
\* of statusCodes, of brokenLinks or of a per-page map; staticResources holds
\* exactly the static URLs that crawl received with a depth of at most maxDepth.
StaticResourceExclusion ==
    /\ \A u \in KnownUrls : isStaticResource(u) =>
           /\ u \notin Range(fetchLog)
           /\ u \notin visitedUrls
           /\ u \notin DOMAIN statusCodes \cup PageRecordKeys \cup ProcessedPages
           /\ BrokenEntries(u) = {}
    /\ staticResources =
           {c[1] : c \in {d \in crawlCalls : d[2] <= maxDepth /\ isStaticResource(d[1])}}

\* a finished crawl that recorded a static link of a crawled page
StaticLinkRecorded ==
    /\ phase = "crawled"
    /\ \E p \in ProcessedPages : \E u \in LinkSet(p) :
           /\ isStaticResource(u)
           /\ u \in staticResources
           /\ u \in Range(internalLinks[p])

\* C5 as stated: no URL stored in externalLinks[p] is ever fetched or visited.
ExternalLinksNeverFetched ==
    \A p \in DOMAIN externalLinks : \A u \in Range(externalLinks[p]) :
        u \notin Range(fetchLog) /\ u \notin visitedUrls

\* C6: a URL whose fetch was answered with an HTTP error status s has exactly
\* one brokenLinks entry, that entry has status s, statusCodes holds s for it,
\* and it has no page record.
BrokenLinkRecording ==
    \A r \in Results : r.kind = "httpError" =>
        /\ Cardinality(BrokenEntries(r.url)) = 1
        /\ \A j \in BrokenEntries(r.url) : brokenLinks[j].status = r.status
        /\ r.url \in DOMAIN statusCodes /\ statusCodes[r.url] = r.status
        /\ r.url \notin PageRecordKeys

\* a finished crawl with an HTTP error on a linked URL, next to a page with a record
HttpErrorRecorded ==
    /\ phase = "crawled"
    /\ pagesTitles # EmptyMap
    /\ \E r \in Results : r.kind = "httpError" /\ r.url # startUrl

\* C7: a transport failure leaves statusCodes[u] = 0 and one brokenLinks
\* entry with status 0, and only ends the activation of u: every link of a
\* page that the loop of crawl recurses into has either been passed to crawl
\* or still waits in the loop of that page.
TransportFailureContinues ==
    /\ \A r \in Results : r.kind = "transport" =>
           /\ r.url \in DOMAIN statusCodes /\ statusCodes[r.url] = 0
           /\ Cardinality(BrokenEntries(r.url)) = 1
           /\ \A j \in BrokenEntries(r.url) : brokenLinks[j].status = 0
    /\ \A p \in ProcessedPages : \A l \in LinkSet(p) : isInternalUrl(l) =>
           \/ /\ <<p, l>> \in loopCalls
              /\ \/ l \in CalledUrls
                 \/ \E k \in 1..Len(stack) : stack[k].url = l /\ stack[k].pc = "call"
           \/ \E k \in 1..Len(stack) :
                  stack[k].url = p /\ stack[k].pc = "loop" /\ l \in Range(stack[k].links)

\* a finished crawl in which a link of a page failed at the transport layer
\* and a later link of the same page was fetched after it
FetchedAfterTransportFailure ==
    /\ phase = "crawled"
    /\ \E i, j \in 1..Len(fetchResults) : \E p \in ProcessedPages :
           /\ i < j
           /\ fetchResults[i].kind = "transport"
           /\ <<p, fetchResults[i].url>> \in loopCalls
           /\ <<p, fetchResults[j].url>> \in loopCalls

\* C8: a URL whose fetch gave a status other than 200, or an empty body, has
\* no entry in any per-page map and no recursion from it, stays in
\* visitedUrls, and statusCodes holds the returned status.
StopsAfterFailedFetch ==
    \A r \in Results : (r.status # 200 \/ ~r.body) =>
        /\ r.url \notin PageRecordKeys \cup ProcessedPages
        /\ \A c \in loopCalls : c[1] # r.url
        /\ r.url \in visitedUrls
        /\ r.url \in DOMAIN statusCodes /\ statusCodes[r.url] = r.status

\* a finished crawl with a 200 response without body and a non-200 response with body
StoppedOnEmptyAndNon200 ==
    /\ phase = "crawled"
    /\ \E r \in Results : r.status = 200 /\ ~r.body
    /\ \E r \in Results : r.status # 200 /\ r.body

\* C9 as stated: after the crawl every URL whose fetch failed at the
\* transport layer or returned a status other than 200 has a brokenLinks entry.
EveryNon200IsBroken ==
    phase = "crawled" =>
        \A r \in Results : (r.kind = "transport" \/ r.status # 200) =>
            BrokenEntries(r.url) # {}

\* C9 amended: a fetched URL has a brokenLinks entry exactly when axios
\* rejected the request (transport failure or HTTP error status); a response
\* axios accepts, 200 or not, leaves none.
RejectedFetchesAreBroken ==
    \A r \in Results : (r.kind # "resolved") <=> (BrokenEntries(r.url) # {})

\* a finished crawl with a transport failure and a 204 response
RejectedAndAcceptedFetches ==
    /\ phase = "crawled"
    /\ \E r \in Results : r.kind = "transport"
    /\ \E r \in Results : r.kind = "resolved" /\ r.status # 200

(***************************************************************************)
(* Properties of the sitemap comparison.                                   *)
(***************************************************************************)
\* C10: after compareCrawlWithSitemap, urlsNotInSitemap is visitedUrls minus
\* sitemapUrls and urlsInSitemapButNotCrawled is sitemapUrls minus visitedUrls.
SitemapSetDifference ==
    phase = "compared" =>
        /\ urlsNotInSitemap = visitedUrls \ sitemapUrls
        /\ urlsInSitemapButNotCrawled = sitemapUrls \ visitedUrls

\* visited {A, B, C} and sitemap {B, C, D} compared: {A} and {D}
SitemapExampleCompared ==
    /\ phase = "compared"
    /\ visitedUrls = {UrlHome, UrlA, UrlB}
    /\ sitemapUrls = {UrlA, UrlB, UrlD}
    /\ urlsNotInSitemap = {UrlHome}
    /\ urlsInSitemapButNotCrawled = {UrlD}

(***************************************************************************)
(* Properties of the sitemap expansion.                                    *)
(***************************************************************************)
\* the sitemap URLs whose document was served
Served == DOMAIN sitemaps

\* the <loc> texts processSitemap reads from a document before it returns or throws
LeafUrls(doc) ==
    IF doc.kind = "urlset"
    THEN Range(SubSeq(doc.entries, 1, IndexFrom(doc.entries, NoLoc, 1) - 1))
    ELSE {}

\* parseSitemap of the document resolves
ParsedSuccessfully(doc) ==
    \/ doc.kind = "sitemapindex"
    \/ doc.kind = "urlset" /\ NoLoc \notin Range(doc.entries)

\* analyze is past parseSitemap
Reconciling == phase \in {"compare", "compared", "returned"}

\* C11: whatever the sitemap index lists, a cycle of indexes included, the
\* expansion ends and compareCrawlWithSitemap runs on the set of the page
\* URLs of the sitemaps served.
IndexExpansionTerminates ==
    <>(/\ phase = "compared"
       /\ sitemapUrls = UNION {LeafUrls(sitemaps[loc]) : loc \in Served})

\* C12: when the expansion of a sitemap index is over, every sub-sitemap
\* that any served index lists has been requested, whatever became of the
\* ones before it, and sitemapUrls holds exactly the page URLs read from the
\* sub-sitemaps, all of them for each one that was fetched and parsed.
SubSitemapFailureIsolation ==
    (Reconciling /\ sitemapUrl \in Served /\ sitemaps[sitemapUrl].kind = "sitemapindex") =>
        /\ \A loc \in Served : sitemaps[loc].kind = "sitemapindex" =>
               Range(sitemaps[loc].entries) \ {NoLoc} \subseteq Served
        /\ \A loc \in Served :
               (sitemaps[loc].kind = "urlset" /\ ParsedSuccessfully(sitemaps[loc])) =>
                   Range(sitemaps[loc].entries) \subseteq sitemapUrls
        /\ sitemapUrls = UNION {LeafUrls(sitemaps[loc]) : loc \in Served}

\* an index whose first sub-sitemap failed and whose second one gave its URLs
LaterSubSitemapKept ==
    /\ Reconciling
    /\ sitemaps[sitemapUrl] = Document("sitemapindex", <<LocOne, LocTwo>>)
    /\ ~ParsedSuccessfully(sitemaps[LocOne])
    /\ sitemaps[LocTwo].kind = "urlset"
    /\ UrlA \in sitemapUrls

\* the GET of /sitemap.xml failed, or its body is no sitemap
TopSitemapFailed ==
    /\ sitemapUrl \in Served
    /\ sitemaps[sitemapUrl].kind \in {"unreachable", "empty", "malformed", "other"}

\* C13: when the GET of /sitemap.xml fails or its root is neither
\* sitemapindex nor urlset, analyze is not left: compareCrawlWithSitemap and
\* generateReport are the steps that follow, and the report analyze returns
\* counts no sitemap URL and lists every visited URL as missing from the
\* sitemap; visitedUrls, brokenLinks and statusCodes stay as crawl left them.
SitemapFailureTolerated ==
    /\ [](TopSitemapFailed =>
            /\ Reconciling
            /\ sitemapUrls = {}
            /\ phase = "compare" => ENABLED CompareCrawlWithSitemap
            /\ phase = "compared" => ENABLED GenerateReport
            /\ phase = "returned" =>
                   /\ report.returned
                   /\ report.sitemapStats.totalUrlsInSitemap = 0
                   /\ report.sitemapStats.urlsNotInSitemap = visitedUrls)
    /\ [][TopSitemapFailed' => UNCHANGED <<visitedUrls, brokenLinks, statusCodes>>]_vars

\* a report returned after /sitemap.xml gave XML with another root
ReportWithoutSitemap ==
    /\ phase = "returned"
    /\ sitemaps[sitemapUrl].kind = "other"
    /\ report.returned
    /\ brokenLinks # <<>>

(***************************************************************************)
(* Properties of the AI collaborator.                                      *)
(***************************************************************************)
\* C14: when none of the three replies is valid JSON, optimizeMetaTags
\* returns the title, the description and the keyword list it was given.
FallbackOnInvalidJSON ==
    (/\ phase = "optimized"
     /\ \A i \in 1..3 : aiReplies[i].kind = "text" /\ ~IsJSONObject(aiReplies[i].text)) =>
        /\ optimizedData.title = pageData.title
        /\ optimizedData.description = pageData.description
        /\ optimizedData.suggestions = pageData.keywords

\* C15: whatever the AI collaborator does (a rejection, no text, text that
\* cannot be parsed, JSON with absent or wrongly typed fields, keyword lists
\* with entries that are not strings), every link the loop of crawl
\* recurses into is passed to crawl, and analyze is never left without a
\* report.
AIResponsesNeverFatal ==
    /\ phase # "failed"
    /\ phase # "crawl" =>
           \A p \in ProcessedPages : \A l \in LinkSet(p) :
               isInternalUrl(l) => <<p, l>> \in loopCalls /\ l \in CalledUrls
    /\ phase = "returned" => report.returned

(***************************************************************************)
(* Properties of the crawl: scenario, frame and per-URL states.            *)
(***************************************************************************)
\* C16: a crawl with maxDepth >= 1 from https://ex/, whose page links to /a,
\* https://ot/ and /l.png, where /a answers 200 with no link into the site,
\* ends with visitedUrls = {https://ex/, https://ex/a},
\* externalLinks[https://ex/] = [https://ot/] and
\* staticResources = {https://ex/l.png}.
EndToEndScenario ==
    (/\ phase = "crawled"
     /\ startUrl = UrlHome
     /\ maxDepth >= 1
     /\ \E r \in Results :
            /\ r.url = UrlHome /\ r.status = 200
            /\ Len(r.hrefs) = 3
            /\ Range(r.hrefs) = {HrefRootRelative, HrefExternal, HrefStatic}
     /\ \A r \in Results : r.url = UrlA =>
            r.status = 200 /\ Range(r.hrefs) \subseteq {HrefExternal}) =>
        /\ visitedUrls = {UrlHome, UrlA}
        /\ externalLinks[UrlHome] = <<HrefExternal>>
        /\ staticResources = {UrlLogo}

\* the scenario, crawled to its end
ScenarioCrawled ==
    /\ phase = "crawled"
    /\ fetchLog = <<UrlHome, UrlA>>
    /\ fetchResults[1].hrefs = <<HrefRootRelative, HrefExternal, HrefStatic>>
    /\ fetchResults[2].status = 200 /\ fetchResults[2].body
    /\ staticResources = {UrlLogo}

\* crawl is at its first statement
AtCrawlCall == phase = "crawl" /\ stack # <<>> /\ Top.pc = "call"

\* C17: a call of crawl with depth > maxDepth or with a visited URL returns
\* and changes nothing of the crawl state; a call with a static URL, within
\* depth and not visited, returns and adds the URL to staticResources and
\* changes nothing else; none of the three starts a fetch.
PreconditionFrame ==
    [][AtCrawlCall =>
          IF Top.depth > maxDepth \/ Top.url \in visitedUrls
          THEN /\ UNCHANGED <<crawlState, sitemapState, fetchLog, fetchResults>>
               /\ stack' = SubSeq(stack, 1, Len(stack) - 1)
          ELSE isStaticResource(Top.url) =>
                   /\ staticResources' = staticResources \cup {Top.url}
                   /\ UNCHANGED <<visitedUrls, brokenLinks, internalLinks, externalLinks,
                                  pagesTitles, pagesDescriptions, pagesH1, pagesTitlesWarnings,
                                  pagesDescriptionsWarnings, pagesMetaTags,
                                  statusCodes, sitemapState, fetchLog, fetchResults>>
                   /\ stack' = SubSeq(stack, 1, Len(stack) - 1)]_vars

\* a finished crawl in which crawl returned at once for each of the three reasons
ReturnedAtOnceThreeWays ==
    /\ phase = "crawled"
    /\ \E c \in crawlCalls : c[2] > maxDepth
    /\ \E p, q \in ProcessedPages : \E u \in visitedUrls :
           p # q /\ <<p, u>> \in loopCalls /\ <<q, u>> \in loopCalls
    /\ staticResources # {}

\* the fetch of u is in flight
Visiting(u) == \E k \in 1..Len(stack) : stack[k].url = u /\ stack[k].pc = "fetch"

\* the state of u in the per-URL state machine
UrlState(u) ==
    IF u \in staticResources THEN "skipped-static"
    ELSE IF \E r \in Results : r.url = u /\ r.status = 200 /\ r.body THEN "visited-success"
    ELSE IF \E r \in Results : r.url = u THEN "visited-failure"
    ELSE IF u \in visitedUrls THEN "visiting"
    ELSE IF \E c \in crawlCalls : c[1] = u /\ c[2] > maxDepth THEN "skipped-depth-exceeded"
    ELSE "unvisited"

\* C18 as stated: visited-success, visited-failure, skipped-static and
\* skipped-depth-exceeded are final.
AllTerminalStatesFinal ==
    [][\A u \in KnownUrls :
          UrlState(u) \in {"visited-success", "visited-failure", "skipped-static",
                           "skipped-depth-exceeded"} =>
              UrlState(u)' = UrlState(u) /\ ~Visiting(u)']_vars

\* C18 amended: visited-success, visited-failure and skipped-static are
\* final: such a URL keeps its state and is never fetched again.  A URL
\* that was turned away for its depth is unvisited still, and is fetched
\* when crawl receives it with a depth of at most maxDepth.
TerminalStatesFinal ==
    [][\A u \in KnownUrls :
          UrlState(u) \in {"visited-success", "visited-failure", "skipped-static"} =>
              /\ UrlState(u)' = UrlState(u)
              /\ ~Visiting(u)'
              /\ Cardinality({i \in 1..Len(fetchLog') : fetchLog'[i] = u})
                     = Cardinality({i \in 1..Len(fetchLog) : fetchLog[i] = u})]_vars

\* a finished crawl in which a URL was fetched after crawl had turned it
\* away for its depth, and in which a failed URL was linked again
FetchedAfterDepthSkip ==
    /\ phase = "crawled"
    /\ \E u \in visitedUrls : \E c \in crawlCalls : c[1] = u /\ c[2] > maxDepth
    /\ \E u \in visitedUrls :
           /\ UrlState(u) = "visited-failure"
           /\ Cardinality({c \in loopCalls : c[2] = u}) >= 2

(***************************************************************************)
(* The crawl of a site of four pages, each with at most two links.         *)
(***************************************************************************)
MaxReachLinks == 4

UrlC == Https \o <<"ex", "/", "c">>      \* "https://ex/c"

HrefC == <<"/", "c">>                    \* href="/c"

\* pages with a title and at most two links into the site
ReachPages ==
    {[length |-> 1, title |-> "T", description |-> "D", h1 |-> "H", hrefs |-> hrefs] :
        hrefs \in UNION {[1..n -> {HrefRootRelative, HrefPathRelative, HrefC}] : n \in 0..2}}

\* the pages whose <a> elements fit in the site
ReachPagesLeft ==
    {html \in ReachPages : Len(html.hrefs) <= MaxReachLinks - AnchorsIn(fetchResults)}

\* analyze(maxDepth) from https://ex/
InitReach ==
    /\ AsLibrary
    /\ startUrl = UrlHome
    /\ maxDepth \in 1..MaxDepthBound
    /\ aiOptimizer = "completions"
    /\ Constructed
    /\ NoMetaTagsCall
    /\ stack = <<Frame(startUrl, 0)>>
    /\ phase = "crawl"

NextReach ==
    \/ CrawlCall
    \/ \E html \in ReachPagesLeft : FetchResolved(200, html, ReplyThrows)
    \/ \E status \in ErrorStatuses : FetchHttpError(status)
    \/ CrawlLoop

SpecReach == InitReach /\ [][NextReach]_vars

\* the pages that fetched with status 200 and a body
FetchedPages == {r.url : r \in {q \in Results : q.status = 200 /\ q.body}}

\* the URLs a chain of at most n links leads to from the start URL, through
\* the pages fetched with status 200
RECURSIVE ReachableWithin(_)
ReachableWithin(n) ==
    IF n = 0 THEN {startUrl}
    ELSE LET near == ReachableWithin(n - 1)
         IN near \cup UNION {LinkSet(p) : p \in near \cap FetchedPages}

\* C19: when crawl(startUrl, 0, maxDepth) has returned, every internal
\* non-static URL that a chain of at most maxDepth links leads to from the
\* start URL, through pages that fetched with status 200, is in visitedUrls.
CrawlReachesAllLinks ==
    phase = "crawled" =>
        \A u \in ReachableWithin(maxDepth) :
            isInternalUrl(u) /\ ~isStaticResource(u) => u \in visitedUrls

(***************************************************************************)
(* Several invocations of crawl on one analyzer, not awaited one after the *)
(* other.  stack is the invocation that runs, suspended holds the others.  *)
(* The event loop leaves an invocation only at an await: the await of      *)
(* fetchPage (pc = "fetch"), the awaits before and inside the loop         *)
(* (pc = "loop"), or its end.  From its call to its first await crawl runs *)
(* without interruption.                                                   *)
(***************************************************************************)
MaxInvocations == 2

\* the URLs crawl is invoked with
InvokedUrls == {UrlHome, UrlA}

atSuspensionPoint == IF stack = <<>> THEN TRUE ELSE Top.pc \in {"fetch", "loop"}

\* the event loop resumes, or starts, the i-th of the other invocations
Switch(i) ==
    /\ phase = "crawl"
    /\ atSuspensionPoint
    /\ i \in 1..Len(suspended)
    /\ stack' = suspended[i]
    /\ suspended' = SubSeq(suspended, 1, i - 1) \o SubSeq(suspended, i + 1, Len(suspended))
                        \o (IF stack = <<>> THEN <<>> ELSE <<stack>>)
    /\ UNCHANGED <<process, normalizeCall, pageContentCall, reportFiles, startUrl, maxDepth, crawlState, sitemapState, history, keywords,
                   aiOptimizer, sitemapRun, report, metaTagsCall,
                   issues, outstanding, phase>>

\* pages with a title and links into the site
InterleavedPages ==
    {[length |-> 1, title |-> "T", description |-> "D", h1 |-> "H", hrefs |-> hrefs] :
        hrefs \in UNION {[1..n -> {HrefRootRelative, HrefPathRelative}] : n \in 0..2}}

InterleavedPagesLeft ==
    {html \in InterleavedPages : Len(html.hrefs) <= MaxSiteLinks - AnchorsIn(fetchResults)}

\* the invocations that have not returned
Pending == Len(suspended) + (IF stack = <<>> THEN 0 ELSE 1)

\* the caller invokes crawl(url, 0, maxDepth) while the invocations made so
\* far wait; the new one runs up to its first await
CrawlInvoked(url) ==
    /\ phase = "crawl"
    /\ atSuspensionPoint
    /\ Pending < MaxInvocations
    /\ stack' = <<Frame(url, 0)>>
    /\ suspended' = suspended \o (IF stack = <<>> THEN <<>> ELSE <<stack>>)
    /\ UNCHANGED <<process, normalizeCall, pageContentCall, reportFiles, startUrl, maxDepth, crawlState, sitemapState, history, keywords,
                   aiOptimizer, sitemapRun, report, metaTagsCall,
                   issues, outstanding, phase>>

\* crawl(https://ex/, 0, 1) is invoked
InitInterleaved ==
    /\ AsLibrary
    /\ startUrl = UrlHome
    /\ maxDepth = 1
    /\ aiOptimizer = "completions"
    /\ Constructed
    /\ NoMetaTagsCall
    /\ stack = <<Frame(startUrl, 0)>>
    /\ phase = "crawl"

NextInterleaved ==
    \/ CrawlCall
    \/ \E html \in InterleavedPagesLeft : FetchResolved(200, html, ReplyThrows)
    \/ FetchTransportError
    \/ CrawlLoop
    \/ \E url \in InvokedUrls : CrawlInvoked(url)
    \/ \E i \in 1..Len(suspended) : Switch(i)

SpecInterleaved == InitInterleaved /\ [][NextInterleaved]_vars

\* the activations of every invocation
AllFrames ==
    {<<0, k>> : k \in 1..Len(stack)}
        \cup {<<i, k>> : i \in 1..Len(suspended), k \in 1..MaxSiteLinks + 2}
FrameAt(a) == IF a[1] = 0 THEN stack[a[2]] ELSE suspended[a[1]][a[2]]
Activations == {a \in AllFrames : a[1] = 0 \/ a[2] <= Len(suspended[a[1]])}

\* C20: however the invocations of crawl are interleaved at their awaits,
\* no URL is handed to fetchPage twice, no two activations await the fetch
\* of the same URL, and a URL whose fetch is awaited is in visitedUrls.
VisitedBeforeFetchInterleaved ==
    /\ \A i, j \in 1..Len(fetchLog) : fetchLog[i] = fetchLog[j] => i = j
    /\ \A a, b \in Activations :
           FrameAt(a).pc = "fetch" /\ FrameAt(b).pc = "fetch"
               /\ FrameAt(a).url = FrameAt(b).url => a = b
    /\ \A a \in Activations : FrameAt(a).pc = "fetch" => FrameAt(a).url \in visitedUrls

\* an invocation of crawl for https://ex/ has returned at once while another
\* one awaits the fetch of https://ex/
InvocationRefusedWhileInFlight ==
    /\ phase = "crawl"
    /\ stack = <<>>
    /\ fetchLog = <<UrlHome>>
    /\ fetchResults = <<>>
    /\ staticResources = {}
    /\ Len(suspended) = 1
    /\ suspended[1][1].url = UrlHome /\ suspended[1][1].pc = "fetch"

(***************************************************************************)
(* Properties of the report analyze() returns.                             *)
(***************************************************************************)
\* the pages crawl parsed
ParsedPages == {r.url : r \in {q \in Results : q.status = 200 /\ q.body}}

\* the positions of the issues of one kind about one page
ReportedIssues(kind, url) ==
    {i \in 1..Len(report.issues) :
        report.issues[i].kind = kind /\ report.issues[i].url = url}

\* C21: in the report analyze returns, every parsed page without a title
\* has one missing-title issue, every one without a meta description one
\* missing-description issue, every one without an h1 one missing-h1 issue.
IssuesCoverMissingMetadata ==
    phase = "returned" =>
        \A url \in ParsedPages :
            /\ url \notin DOMAIN pagesTitles =>
                   Cardinality(ReportedIssues("missingTitle", url)) = 1
            /\ url \notin DOMAIN pagesDescriptions =>
                   Cardinality(ReportedIssues("missingDescription", url)) = 1
            /\ url \notin DOMAIN pagesH1 =>
                   Cardinality(ReportedIssues("missingH1", url)) = 1

\* C22: in the report analyze returns, a non-empty urlsNotInSitemap and a
\* non-empty urlsInSitemapButNotCrawled each have an issue.
IssuesCoverSitemapMismatches ==
    phase = "returned" =>
        /\ urlsNotInSitemap # {} => ReportedIssues("notInSitemap", <<>>) # {}
        /\ urlsInSitemapButNotCrawled # {} => ReportedIssues("notCrawled", <<>>) # {}

\* C23: the report analyze returns has one pageMeta record for every URL of
\* visitedUrls and for no other, and the status of the record is the
\* number statusCodes holds for the URL, 0 included.
PageMetaPerVisitedUrl ==
    phase = "returned" =>
        /\ \A i \in DOMAIN report.pageMeta : report.pageMeta[i].url \in visitedUrls
        /\ \A url \in visitedUrls :
               /\ Cardinality({i \in DOMAIN report.pageMeta :
                                   report.pageMeta[i].url = url}) = 1
               /\ \A i \in DOMAIN report.pageMeta :
                      report.pageMeta[i].url = url =>
                          /\ url \in DOMAIN statusCodes
                          /\ report.pageMeta[i].status = StatusNumber(statusCodes[url])

(***************************************************************************)
(* The script: the command-line entry and runAnalysis(url, maxDepth).      *)
(***************************************************************************)
DefaultMaxDepth == 10

\* process.argv.slice(2): nothing, a URL, or a URL and a depth
Argvs ==
    {<<>>, <<UrlHome>>, <<UrlHome, <<"0">>>>, <<UrlHome, <<"1">>>>, <<<<"x">>>>}

\* process.env.OPENAI_API_KEY: not set, empty, or a key
ApiKeys == {EnvUnset, EnvValue(<<>>), EnvValue(<<"sk">>)}

\* parseInt(text, 10) of the depth arguments of the model
parseInt(text) == IF text = <<"0">> THEN 0 ELSE 1

\* runAnalysis without the test of the key
missingApiKey_Never(key) == FALSE

\* "!openaiApiKey"
missingApiKey(key) == ~key.set \/ key.text = <<>>

\* process.exit(code)
exit(code) ==
    /\ process' = [process EXCEPT !.exited = TRUE, !.exitCode = code]
    /\ phase' = "exited"

\* the script from its start to its first await: the test of the arguments,
\* runAnalysis up to "new SEOAnalyzer(url, openaiApiKey)", whose getBaseUrl
\* throws for a URL that does not parse, and the call of analyze(maxDepth)
CommandLine ==
    /\ phase = "main"
    /\ IF Len(process.argv) = 0 \/ missingApiKey(process.apiKey)
       THEN exit(1) /\ UNCHANGED <<startUrl, maxDepth, stack>>
       ELSE IF Href(process.argv[1]) = Invalid
       THEN /\ phase' = "caught"
            /\ UNCHANGED <<process, startUrl, maxDepth, stack>>
       ELSE /\ startUrl' = process.argv[1]
            /\ maxDepth' = IF Len(process.argv) > 1 THEN parseInt(process.argv[2])
                           ELSE DefaultMaxDepth
            /\ stack' = <<Frame(process.argv[1], 0)>>
            /\ phase' = "crawl"
            /\ UNCHANGED process
    /\ UNCHANGED <<normalizeCall, pageContentCall, reportFiles, crawlState, sitemapState, history, keywords,
                   aiOptimizer, suspended, sitemapRun, report, metaTagsCall,
                   issues, outstanding>>

\* runAnalysis returns, after analyze or after its catch, and the process
\* ends when nothing is left to run
RunAnalysisReturn ==
    /\ phase \in {"returned", "failed", "caught"}
    /\ exit(0)
    /\ UNCHANGED <<normalizeCall, pageContentCall, reportFiles, startUrl, maxDepth, crawlState, sitemapState, stack,
                   history, keywords, aiOptimizer, suspended, sitemapRun, report,
                   metaTagsCall, issues, outstanding>>

InitRun ==
    /\ process \in {[argv |-> argv, apiKey |-> key, exited |-> FALSE, exitCode |-> 0] :
                       argv \in Argvs, key \in ApiKeys}
    /\ normalizeCall = NoNormalizeCall
    /\ NothingWritten
    /\ startUrl = <<>>
    /\ maxDepth = 0
    /\ aiOptimizer = "completions"
    /\ Constructed
    /\ NoMetaTagsCall
    /\ stack = <<>>
    /\ phase = "main"

NextRun ==
    \/ CommandLine
    \/ CrawlCall
    \/ \E html \in AnalyzedPages : FetchResolved(200, html, ReplyThrows)
    \/ FetchTransportError
    \/ CrawlLoop
    \/ \E doc \in {Document("unreachable", <<>>), Document("urlset", <<UrlHome>>)} :
           FetchSitemap(doc)
    \/ CompareCrawlWithSitemap
    \/ GenerateReport
    \/ RunAnalysisReturn

SpecRun == InitRun /\ [][NextRun]_vars

\* C24: a run of the script without arguments, or without a non-empty
\* OPENAI_API_KEY, ends in process.exit(1) and nothing else: no page fetch,
\* no sitemap fetch, no AI call and no crawl has been started.
MissingCredentialFatal ==
    (/\ process.argv = <<>> \/ ~process.apiKey.set \/ process.apiKey.text = <<>>
     /\ phase # "main") =>
        /\ phase = "exited" /\ process.exited /\ process.exitCode = 1
        /\ fetchLog = <<>> /\ outstanding = {} /\ crawlCalls = {}
        /\ sitemaps = EmptyMap
        /\ pagesMetaTags = EmptyMap /\ keywords = ConfigKeywords
        /\ report = NoReport

\* the script was given a URL and no key, and has exited
ExitedWithoutCredential ==
    /\ process.argv # <<>> /\ ~process.apiKey.set
    /\ process.exited /\ process.exitCode = 1

(***************************************************************************)
(* normalizeUrl applied to a link and then to its own result.              *)
(***************************************************************************)
\* the links of the calls: root-relative, protocol-relative, path-relative,
\* absolute with and without a path, with the schemes https, http and ftp,
\* a relative file name that starts with "http", and "//", which no URL
\* parser accepts
NormalizedLinks ==
    {<<"/", "a">>, <<"/">>, <<"/", "/", "ot", "/", "x">>, <<"/", "/">>,
     <<"b">>, <<"b", "/", "c">>,
     Https \o <<"ot", "/">>, Https \o <<"ot">>,
     <<"http", ":", "/", "/", "ex", "/", "a">>,
     <<"ftp", ":", "/", "/", "h">>, <<"ftp", ":", "/", "/", "h", "/", "p">>,
     <<"http", "-guide">>}

CurrentUrls == {UrlHome, Https \o <<"ex", "/", "d", "/", "e">>}

\* the link is an absolute URL: it has a scheme
isAbsolute(link) == SchemeEnd(link) # 0

\* normalizeUrl(link, currentUrl) is called
NormalizeLink ==
    /\ phase = "normalize"
    /\ normalizeCall.results = <<>>
    /\ normalizeCall' = [normalizeCall EXCEPT !.results =
           <<normalizeUrl(normalizeCall.link, normalizeCall.currentUrl)>>]
    /\ UNCHANGED <<process, pageContentCall, reportFiles, startUrl, maxDepth, crawlState, sitemapState, stack, phase,
                   history, keywords, aiOptimizer, suspended, sitemapRun, report,
                   metaTagsCall, issues, outstanding>>

\* normalizeUrl is called with the URL it returned; a call that threw
\* returned nothing
NormalizeAgain ==
    /\ phase = "normalize"
    /\ Len(normalizeCall.results) = 1
    /\ normalizeCall.results[1] # Invalid
    /\ normalizeCall' = [normalizeCall EXCEPT !.results =
           Append(@, normalizeUrl(normalizeCall.results[1], normalizeCall.currentUrl))]
    /\ UNCHANGED <<process, pageContentCall, reportFiles, startUrl, maxDepth, crawlState, sitemapState, stack, phase,
                   history, keywords, aiOptimizer, suspended, sitemapRun, report,
                   metaTagsCall, issues, outstanding>>

InitNormalize ==
    /\ process = NoProcess
    /\ NothingWritten
    /\ normalizeCall \in {[link |-> link, currentUrl |-> url, results |-> <<>>] :
                             link \in NormalizedLinks, url \in CurrentUrls}
    /\ startUrl \in {UrlHome, Https \o <<"ot", "/">>}
    /\ maxDepth = 0
    /\ aiOptimizer = "completions"
    /\ Constructed
    /\ NoMetaTagsCall
    /\ stack = <<>>
    /\ phase = "normalize"

NextNormalize == NormalizeLink \/ NormalizeAgain

SpecNormalize == InitNormalize /\ [][NextNormalize]_vars

MaxPageHrefs == 3     \* the start page holds at most MaxPageHrefs <a> elements

HrefAnchor == <<"#", "x">>                     \* href="#x"
HrefJavascript == <<"javascript", ":", "v">>   \* href="javascript:v"
HrefMailto == <<"mailto", ":", "m">>           \* href="mailto:m"
HrefTel == <<"tel", ":", "1">>                 \* href="tel:1"
HrefMalformed == <<"/", "/">>                  \* href="//": new URL throws

IgnoredHrefs == {HrefAnchor, HrefJavascript, HrefMailto, HrefTel}

LinkHrefs == IgnoredHrefs \cup {HrefMalformed, HrefRootRelative, HrefPathRelative}

LinkPage(hrefs) ==
    [length |-> 1, title |-> "T", description |-> "D", h1 |-> "H", hrefs |-> hrefs]

\* the bodies of the start page, and those of the pages it links to
LinkPages(depth) ==
    IF depth = 0
    THEN {LinkPage(hrefs) : hrefs \in UNION {[1..n -> LinkHrefs] : n \in 0..MaxPageHrefs}}
    ELSE {LinkPage(<<>>), LinkPage(<<HrefAnchor, HrefRootRelative>>)}

\* the bodies the pending fetch can bring
LinkPagesNow == IF stack = <<>> THEN {} ELSE LinkPages(Top.depth)

InitLinks ==
    /\ AsLibrary
    /\ startUrl = UrlHome
    /\ maxDepth = 1
    /\ aiOptimizer = "completions"
    /\ Constructed
    /\ NoMetaTagsCall
    /\ stack = <<Frame(startUrl, 0)>>
    /\ phase = "crawl"

NextLinks ==
    \/ CrawlCall
    \/ \E html \in LinkPagesNow : FetchResolved(200, html, ReplyThrows)
    \/ FetchHttpError(404)
    \/ CrawlLoop

SpecLinks == InitLinks /\ [][NextLinks]_vars

\* every URL the analyzer holds: in its sets, its link lists, the arguments
\* of its crawl calls and the link sets of its activations
HeldUrls ==
    visitedUrls \cup staticResources \cup {c[1] : c \in crawlCalls}
        \cup UNION {Range(internalLinks[u]) : u \in DOMAIN internalLinks}
        \cup UNION {Range(externalLinks[u]) : u \in DOMAIN externalLinks}
        \cup UNION {Range(stack[k].links) \cup {stack[k].url} : k \in 1..Len(stack)}

\* C26: an href that starts with #, javascript:, mailto: or tel: is held
\* nowhere, neither as it is written nor as normalizeUrl would return it
\* for a page that was fetched: not in visitedUrls or staticResources, not in
\* internalLinks or externalLinks, not in a returned link set, and crawl is
\* never called with it.
IgnoredHrefsDropped ==
    HeldUrls \cap
        (IgnoredHrefs \cup {normalizeUrl(h, u) : h \in IgnoredHrefs, u \in Range(fetchLog)})
      = {}

\* the crawl is over and the start page held a mailto: href, a tel: href and
\* a link that was followed
IgnoredHrefsBesideLink ==
    /\ phase = "crawled"
    /\ \E i \in 1..Len(fetchResults) :
           /\ fetchResults[i].url = UrlHome
           /\ {HrefMailto, HrefTel, HrefRootRelative} \subseteq Range(fetchResults[i].hrefs)
    /\ URLResolve(HrefRootRelative, UrlHome) \in visitedUrls

\* the hrefs of a page that extractLinks keeps: not empty, not ignored, and
\* accepted by normalizeUrl
KeptHrefs(hrefs, url) ==
    SelectSeq(hrefs, LAMBDA h : h # <<>> /\ h \notin IgnoredHrefs
                                        /\ normalizeUrl(h, url) # Invalid)

Normalized(hrefs, url) == [i \in 1..Len(hrefs) |-> normalizeUrl(hrefs[i], url)]

\* C27: when extractLinks has run for a page, the href normalizeUrl threw
\* for is in no link list and not in the returned set, and every other
\* href that is not ignored is: normalized, in internalLinks or
\* externalLinks by its class, in document order, and in the returned set;
\* and once the page is done, crawl was called for each returned link that
\* is internal.
MalformedHrefSkipped ==
    /\ [][(/\ stack # <<>> /\ Top.pc = "fetch"
           /\ Len(stack') = Len(stack) /\ stack'[Len(stack')].pc = "loop") =>
            LET url == Top.url
                hrefs == fetchResults'[Len(fetchResults')].hrefs
                kept == KeptHrefs(hrefs, url)
                links == stack'[Len(stack')].links
            IN /\ Range(links) = Range(Normalized(kept, url))
               /\ internalLinks'[url] =
                      Normalized(SelectSeq(kept, isInternalUrl), url)
               /\ externalLinks'[url] =
                      Normalized(SelectSeq(kept, LAMBDA h : ~isInternalUrl(h)), url)
               /\ {Invalid, HrefMalformed} \cap
                      (Range(links) \cup Range(internalLinks'[url])
                           \cup Range(externalLinks'[url])) = {}]_vars
    /\ [](\A i \in 1..Len(fetchResults) :
            LET r == fetchResults[i]
            IN (\A k \in 1..Len(stack) : stack[k].url # r.url) =>
                   \A link \in Range(Normalized(KeptHrefs(r.hrefs, r.url), r.url)) :
                       isInternalUrl(link) => <<r.url, link>> \in loopCalls)

\* the start page held a link, the href "//" and another link, in this
\* order, and both links were fetched
LinksAroundMalformedCrawled ==
    /\ phase = "crawled"
    /\ fetchResults[1].hrefs = <<HrefRootRelative, HrefMalformed, HrefPathRelative>>
    /\ internalLinks[UrlHome] = <<URLResolve(HrefRootRelative, UrlHome)>>
    /\ externalLinks[UrlHome] = <<URLResolve(HrefPathRelative, UrlHome)>>
    /\ {URLResolve(HrefRootRelative, UrlHome), URLResolve(HrefPathRelative, UrlHome)}
           \subseteq visitedUrls

(***************************************************************************)
(* The order of the traversal.                                             *)
(***************************************************************************)
\* the normalized hrefs of the page fetched from url, as the document has them
DocumentLinks(url) ==
    LET r == CHOOSE q \in Results : q.url = url
    IN Normalized(KeptHrefs(r.hrefs, url), url)

\* the place of the first <a> element of a page that leads to link
FirstPlace(url, link) == IndexFrom(DocumentLinks(url), link, 1)

\* the links of the activation k that its loop has not reached are in
\* document order, and crawl was called for every internal link before them
LoopInDocumentOrder(k) ==
    LET f == stack[k]
    IN /\ \A a, b \in 1..Len(f.links) :
              a < b => FirstPlace(f.url, f.links[a]) < FirstPlace(f.url, f.links[b])
       /\ \A link \in Range(DocumentLinks(f.url)) :
              (isInternalUrl(link) /\ link \notin Range(f.links)) =>
                  <<f.url, link>> \in loopCalls

\* C28 as stated: while the crawl of a link li of a page is going on, no
\* link lj of that page that comes after li is fetched.
DepthFirstBeforeLaterLinkFetched ==
    [][Len(fetchLog') = Len(fetchLog) + 1 =>
          \A k \in 1..(Len(stack) - 1) :
              fetchLog'[Len(fetchLog')] \notin Range(stack[k].links)]_vars

\* C28: the activations of crawl form one path: each one but the last waits
\* in its loop for the next one, which is one level deeper and crawls a link
\* li of its page; the links lj the loop has not reached come after li in
\* the document, in document order, and crawl was called for every internal
\* link before them.  So the loop reaches lj only when the crawl of li, with
\* every fetch it starts, has returned; lj itself may be fetched earlier,
\* within the crawl of li.
DepthFirstDocumentOrder ==
    /\ \A k \in 1..(Len(stack) - 1) :
           /\ stack[k].pc = "loop"
           /\ stack[k + 1].depth = stack[k].depth + 1
           /\ stack[k + 1].url \in Range(DocumentLinks(stack[k].url))
           /\ \A link \in Range(stack[k].links) :
                  FirstPlace(stack[k].url, stack[k + 1].url) < FirstPlace(stack[k].url, link)
           /\ LoopInDocumentOrder(k)
    /\ (stack # <<>> /\ Top.pc = "loop") => LoopInDocumentOrder(Len(stack))

\* the second link of the start page was fetched within the crawl of the
\* first one, two levels down, while the loop of the start page had not
\* reached it
LaterLinkFetchedInSubtree ==
    /\ Len(stack) = 3 /\ Top.pc = "fetch"
    /\ stack[1].links = <<Top.url>>
    /\ Len(DocumentLinks(stack[1].url)) = 2

(***************************************************************************)
(* analyze(maxDepth) await by await: every request is out from its call    *)
(* until it settles.  Between the response of a page and the loop over its *)
(* links crawl awaits analyzePageContent, when the SEOAIOptimizer has it,   *)
(* and the three calls of optimizeMetaTags, when the page has a title or a *)
(* description; what these steps write is written when the last one        *)
(* settles.                                                                *)
(***************************************************************************)
\* the calls of the OpenAI client that crawl awaits for a page, in order
aiCalls(html) ==
    (IF aiOptimizer = "responses" THEN <<"analyzePageContent">> ELSE <<>>)
        \o (IF html.title # "" \/ html.description # ""
            THEN <<"optimizeTitle", "optimizeDescription", "generateKeywordSuggestions">>
            ELSE <<>>)

\* the response of the page arrived: crawl stops, or goes on to its first
\* AI call, or to the loop when it makes none
PageSettled(status, html) ==
    /\ phase = "crawl" /\ stack # <<>> /\ Top.pc = "fetch"
    /\ IF stopsAfterFetch(status, html) \/ aiCalls(html) = <<>>
       THEN FetchResolved(status, html, ReplyThrows)
       ELSE /\ fetchPageResolved(Top.url, status)
            /\ fetchResults' = Append(fetchResults,
                                      FetchResult(Top.url, "resolved", status, html))
            /\ outstanding' = (outstanding \ {PageRequest(Top.url)})
                                  \cup {AIRequest(Head(aiCalls(html)), Top.url)}
            /\ stack' = ReplaceTop([url |-> Top.url, depth |-> Top.depth, pc |-> "ai",
                                    links |-> <<>>, html |-> html,
                                    calls |-> aiCalls(html), reply |-> ReplyThrows])
            /\ UNCHANGED <<process, normalizeCall, pageContentCall, reportFiles, startUrl, maxDepth, visitedUrls,
                           staticResources, internalLinks, externalLinks, pagesTitles,
                           pagesDescriptions, pagesH1, pagesTitlesWarnings,
                           pagesDescriptionsWarnings, pagesMetaTags, sitemapState,
                           fetchLog, crawlCalls, loopCalls, keywords, aiOptimizer,
                           suspended, sitemapRun, report, metaTagsCall, issues, phase>>

\* the AI call that is out settles with reply, which matters when the call
\* is analyzePageContent: the next call is made, or the page is parsed
AISettled(reply) ==
    /\ phase = "crawl" /\ stack # <<>> /\ Top.pc = "ai"
    /\ LET heard == IF Head(Top.calls) = "analyzePageContent" THEN reply ELSE Top.reply
           rest == Tail(Top.calls)
           settled == outstanding \ {AIRequest(Head(Top.calls), Top.url)}
       IN IF rest # <<>>
          THEN /\ outstanding' = settled \cup {AIRequest(Head(rest), Top.url)}
               /\ stack' = ReplaceTop([Top EXCEPT !.calls = rest, !.reply = heard])
               /\ UNCHANGED <<crawlState, keywords, phase>>
          ELSE /\ outstanding' = settled
               /\ parsePage(Top.html, heard)
               /\ UNCHANGED <<visitedUrls, staticResources, brokenLinks, statusCodes>>
    /\ UNCHANGED <<process, normalizeCall, pageContentCall, reportFiles, startUrl, maxDepth, sitemapState, history,
                   aiOptimizer, suspended, sitemapRun, report, metaTagsCall, issues>>

\* analyze that goes on without waiting for crawl
crawlReturned_NotAwaited == phase \in {"crawl", "crawled"}

\* "await this.crawl(this.startUrl, 0, maxDepth)" has returned
crawlReturned == phase = "crawled"

\* fetchSitemap calls axios.get for /sitemap.xml
SitemapRequested ==
    /\ crawlReturned
    /\ SitemapRequest(sitemapUrl) \notin outstanding
    /\ outstanding' = outstanding \cup {SitemapRequest(sitemapUrl)}
    /\ UNCHANGED <<process, normalizeCall, pageContentCall, reportFiles, startUrl, maxDepth, crawlState, sitemapState,
                   stack, phase, history, keywords, aiOptimizer, suspended, sitemapRun,
                   report, metaTagsCall, issues>>

\* the request for /sitemap.xml settles
SitemapSettled(doc) ==
    /\ SitemapRequest(sitemapUrl) \in outstanding
    /\ FetchSitemap(doc)

\* the loop of processSitemapIndex calls axios.get for the next <sitemap>
SubSitemapRequested ==
    /\ phase = "sitemapindex" /\ sitemapStack # <<>> /\ SitemapTopFrame.rest # <<>>
    /\ Head(SitemapTopFrame.rest) # NoLoc
    /\ SitemapRequest(Head(SitemapTopFrame.rest)) \notin outstanding
    /\ outstanding' = outstanding \cup {SitemapRequest(Head(SitemapTopFrame.rest))}
    /\ UNCHANGED <<process, normalizeCall, pageContentCall, reportFiles, startUrl, maxDepth, crawlState, sitemapState,
                   stack, phase, history, keywords, aiOptimizer, suspended, sitemapRun,
                   report, metaTagsCall, issues>>

\* the request for a sub-sitemap settles, or "sitemap.loc[0]" has thrown
\* before any request
SubSitemapSettled(doc) ==
    /\ phase = "sitemapindex" /\ sitemapStack # <<>> /\ SitemapTopFrame.rest # <<>>
    /\ IF Head(SitemapTopFrame.rest) = NoLoc THEN TRUE
       ELSE SitemapRequest(Head(SitemapTopFrame.rest)) \in outstanding
    /\ ProcessSitemapIndex(doc)

\* the bodies of the pages and the sitemap documents of the sites
AwaitedPages ==
    {EmptyPage("T"), SomePage,
     [length |-> 1, title |-> "", description |-> "", h1 |-> "", hrefs |-> <<>>]}

AwaitedReplies == {ReplyThrows, ReplyJSON(Array(<<Keyword(<<"m">>)>>), Absent)}

AwaitedDocuments ==
    {Document("unreachable", <<>>), Document("urlset", <<UrlHome>>),
     Document("sitemapindex", <<LocOne>>), Document("sitemapindex", <<LocTwo>>),
     Document("sitemapindex", <<LocOne, LocTwo>>), Document("sitemapindex", <<NoLoc>>)}

InitAwaits ==
    /\ AsLibrary
    /\ startUrl = UrlHome
    /\ maxDepth \in 0..1
    /\ aiOptimizer \in Optimizers
    /\ Constructed
    /\ NoMetaTagsCall
    /\ stack = <<Frame(startUrl, 0)>>
    /\ phase = "crawl"

NextAwaits ==
    \/ CrawlCall
    \/ \E html \in AwaitedPages : PageSettled(200, html)
    \/ \E reply \in AwaitedReplies : AISettled(reply)
    \/ FetchTransportError
    \/ CrawlLoop
    \/ SitemapRequested
    \/ \E doc \in AwaitedDocuments : SitemapSettled(doc)
    \/ SubSitemapRequested
    \/ \E doc \in AwaitedDocuments : SubSitemapSettled(doc)
    \/ ProcessSitemapIndexReturn
    \/ CompareCrawlWithSitemap
    \/ GenerateReport

SpecAwaits == InitAwaits /\ [][NextAwaits]_vars

\* the requests of a kind that are out
Outstanding(kinds) == {r \in outstanding : r.kind \in kinds}

\* the kinds of the requests of the crawl: pages and AI calls
CrawlRequests ==
    {"page", "analyzePageContent", "optimizeTitle", "optimizeDescription",
     "generateKeywordSuggestions"}

\* C29: a request for a sitemap is made, and a sitemap arrives, only when
\* every activation of crawl has returned and no page fetch or AI call is
\* out, and no page is fetched from then on; compareCrawlWithSitemap has run
\* only when no activation of processSitemapIndex is left, no request is
\* out, /sitemap.xml has been requested and every <loc> of every index that
\* arrived has been requested too; and the report exists only after the
\* comparison.
PhasesInOrder ==
    /\ [][(Outstanding({"sitemap"})' # Outstanding({"sitemap"}) \/ sitemaps' # sitemaps) =>
             /\ stack = <<>> /\ phase \in {"crawled", "sitemapindex"}
             /\ Outstanding(CrawlRequests) = {}]_vars
    /\ [][(Outstanding({"sitemap"}) # {} \/ sitemaps # EmptyMap) =>
             fetchLog' = fetchLog /\ fetchResults' = fetchResults]_vars
    /\ [](phase \in {"compared", "returned", "failed"} =>
            /\ sitemapStack = <<>> /\ outstanding = {}
            /\ sitemapUrl \in DOMAIN sitemaps
            /\ \A loc \in DOMAIN sitemaps :
                   sitemaps[loc].kind = "sitemapindex" =>
                       Range(sitemaps[loc].entries) \ {NoLoc} \subseteq DOMAIN sitemaps)
    /\ [][urlsNotInSitemap' # urlsNotInSitemap => phase = "compare"]_vars
    /\ [][report' # report => phase = "compared"]_vars

\* analyze returned its report after a crawl of two pages and an index
\* within an index
ReportAfterNestedIndex ==
    /\ phase = "returned" /\ report # NoReport
    /\ Len(fetchLog) = 2
    /\ sitemaps[sitemapUrl].kind = "sitemapindex"
    /\ \E loc \in DOMAIN sitemaps \ {sitemapUrl} : sitemaps[loc].kind = "sitemapindex"
    /\ sitemapUrls # {}

\* C30: at most one request is out at any time, whether a page fetch, a
\* call of the OpenAI client or a sitemap fetch; so a request is made only
\* when the one before it has settled.
OneRequestOutstanding == Cardinality(outstanding) <= 1

\* the request for a sub-sitemap is out, after a crawl during which
\* analyzePageContent and the three calls of optimizeMetaTags were awaited
SubSitemapAwaitedAfterAICalls ==
    /\ \E r \in outstanding : r.kind = "sitemap" /\ r.url # sitemapUrl
    /\ keywords # ConfigKeywords
    /\ UrlHome \in DOMAIN pagesMetaTags /\ pagesMetaTags[UrlHome].aiSuggestions

(***************************************************************************)
(* analyze(maxDepth) of pages whose titles and descriptions have lengths   *)
(* at and next to the bounds.                                              *)
(***************************************************************************)
LengthTitles == {"", "T29", "T30", "T60", "T61"}
LengthDescriptions == {"", "D119", "D120", "D160", "D161"}

\* the start page links to /a, the page at /a has no links
LengthPages(depth) ==
    {[length |-> 1, title |-> t, description |-> d, h1 |-> "H",
      hrefs |-> IF depth = 0 THEN <<HrefRootRelative>> ELSE <<>>] :
        t \in LengthTitles, d \in LengthDescriptions}

LengthPagesNow == IF stack = <<>> THEN {} ELSE LengthPages(Top.depth)

InitLengths ==
    /\ AsLibrary
    /\ startUrl = UrlHome
    /\ maxDepth = 1
    /\ aiOptimizer = "completions"
    /\ Constructed
    /\ NoMetaTagsCall
    /\ stack = <<Frame(startUrl, 0)>>
    /\ phase = "crawl"

NextLengths ==
    \/ CrawlCall
    \/ \E html \in LengthPagesNow : FetchResolved(200, html, ReplyThrows)
    \/ CrawlLoop
    \/ FetchSitemap(Document("urlset", <<UrlHome>>))
    \/ CompareCrawlWithSitemap
    \/ GenerateReport

SpecLengths == InitLengths /\ [][NextLengths]_vars

\* the pages the issues array reports for kind
IssueUrls(list, kind) == {list[i].url : i \in {j \in 1..Len(list) : list[j].kind = kind}}

\* the pages whose stored text is shorter than min or longer than max
OutOfRange(map, min, max) ==
    {url \in DOMAIN map : StringLength(map[url]) < min \/ StringLength(map[url]) > max}

\* C31: a page has a title-length warning exactly when it has a title whose
\* length is below 30 or above 60, and a description-length warning exactly
\* when it has a description whose length is below 120 or above 160, so
\* that 30, 60, 120 and 160 are in range; once analyze has built its issues
\* array, and in the report it returns, the pages with an issue about the
\* length of the title or the description are the pages with the warning.
LengthBounds ==
    /\ DOMAIN pagesTitlesWarnings = OutOfRange(pagesTitles, 30, 60)
    /\ DOMAIN pagesDescriptionsWarnings = OutOfRange(pagesDescriptions, 120, 160)
    /\ \A url \in DOMAIN pagesTitles : pagesTitles[url] # ""
    /\ \A url \in DOMAIN pagesDescriptions : pagesDescriptions[url] # ""
    /\ phase \notin {"crawl", "crawled"} =>
           /\ IssueUrls(issues, "titleLength") = DOMAIN pagesTitlesWarnings
           /\ IssueUrls(issues, "descriptionLength") = DOMAIN pagesDescriptionsWarnings
    /\ report # NoReport =>
           /\ IssueUrls(report.issues, "titleLength")
                  = DOMAIN report.crawlStats.urlsWithInvalidTitleLength
           /\ IssueUrls(report.issues, "descriptionLength")
                  = DOMAIN report.crawlStats.urlsWithInvalidDescriptionLength
           /\ report.crawlStats.urlsWithInvalidTitleLength = pagesTitlesWarnings

\* the report of a site whose start page has a title of 30 and a
\* description of 161 characters, and whose other page has a title of 61 and
\* a description of 120
ReportAtTheBounds ==
    /\ report # NoReport
    /\ UrlHome \in DOMAIN pagesTitles \cap DOMAIN pagesDescriptions
    /\ pagesTitles[UrlHome] = "T30" /\ pagesDescriptions[UrlHome] = "D161"
    /\ IssueUrls(report.issues, "descriptionLength") = {UrlHome}
    /\ Cardinality(IssueUrls(report.issues, "titleLength")) = 1
    /\ UrlHome \notin IssueUrls(report.issues, "titleLength")

(***************************************************************************)
(* analyzePageContent(content, url) of the openai.responses class, called  *)
(* once with each answer of the OpenAI client.                             *)
(***************************************************************************)
\* the values a field of the reply's JSON object takes
FieldValues == {Absent, NotArray, Array(<<>>), Array(<<Keyword(<<"m">>)>>)}

\* the answers of openai.responses.create
ContentReplies ==
    {ReplyThrows, ReplyEmpty, ReplyUnparsable}
    \cup {ReplyOf("json", main, longTail, topics, structure, suggestions) :
            main \in FieldValues, longTail \in FieldValues, topics \in FieldValues,
            structure \in FieldValues, suggestions \in FieldValues}

\* "await this.aiOptimizer.analyzePageContent(...)" settles with the value
\* the method returns
AnalyzePageContent ==
    /\ phase = "analyzePageContent"
    /\ pageContentCall.results = <<>>
    /\ pageContentCall' = [pageContentCall EXCEPT !.results =
           <<analyzePageContent(pageContentCall.reply)>>]
    /\ UNCHANGED <<process, normalizeCall, reportFiles, startUrl, maxDepth, crawlState,
                   sitemapState, stack, phase, history, keywords, aiOptimizer,
                   suspended, sitemapRun, report, metaTagsCall, issues, outstanding>>

InitPageContent ==
    /\ process = NoProcess
    /\ normalizeCall = NoNormalizeCall
    /\ reportFiles = NoReportFiles
    /\ pageContentCall \in {[reply |-> reply, results |-> <<>>] : reply \in ContentReplies}
    /\ startUrl = UrlHome
    /\ maxDepth = 0
    /\ aiOptimizer = "responses"
    /\ Constructed
    /\ NoMetaTagsCall
    /\ stack = <<>>
    /\ phase = "analyzePageContent"

NextPageContent == AnalyzePageContent

SpecPageContent == InitPageContent /\ [][NextPageContent]_vars

RequiredFields ==
    {"mainKeywords", "longTailKeywords", "relatedTopics", "contentStructure",
     "seoSuggestions"}

\* C32: every call of analyzePageContent returns an object, whatever the
\* OpenAI client answered (a rejection, no output_text, a text that is not
\* JSON, an object whose fields are absent or not arrays): the object has
\* the five fields mainKeywords, longTailKeywords, relatedTopics,
\* contentStructure and seoSuggestions, each one an array, and an array of
\* the reply is returned as it was.
PageContentWellShaped ==
    /\ [][Len(pageContentCall.results) = 0 /\ ENABLED AnalyzePageContent
             => Len(pageContentCall'.results) = 1]_vars
    /\ [](Len(pageContentCall.results) = 1 =>
            /\ RequiredFields \subseteq DOMAIN pageContentCall.results[1]
            /\ \A field \in RequiredFields :
                  /\ pageContentCall.results[1][field].type = "array"
                  /\ pageContentCall.reply.kind = "json"
                     /\ pageContentCall.reply[field].type = "array" =>
                        pageContentCall.results[1][field] = pageContentCall.reply[field])

\* the call returned for an object with an absent field, a field that is
\* not an array and a filled array
MisshapenReplyAnswered ==
    /\ Len(pageContentCall.results) = 1
    /\ pageContentCall.reply =
           ReplyOf("json", NotArray, Absent, Array(<<Keyword(<<"m">>)>>), NotArray, Array(<<>>))
    /\ pageContentCall.results[1].mainKeywords = Array(<<>>)
    /\ pageContentCall.results[1].relatedTopics = Array(<<Keyword(<<"m">>)>>)

(***************************************************************************)
(* The report in the files of generateReport and the report analyze        *)
(* returns.                                                                *)
(***************************************************************************)
\* C33: once analyze has returned, the issues array of the report written
\* to seo-report.json and the one rendered into seo-report.html, from which
\* seo-report.pdf is printed, are the issues array of the returned report.
WrittenIssuesAreReturned ==
    report # NoReport =>
        /\ reportFiles.json # NoReport /\ reportFiles.html # NoReport
        /\ reportFiles.json.issues = report.issues
        /\ reportFiles.html.issues = report.issues

(***************************************************************************)
(* The keys of this.internalLinks and this.externalLinks.                  *)
(***************************************************************************)
\* the URLs whose fetch resolved with status 200 and a body
ParsedUrls ==
    {fetchResults[i].url : i \in {j \in 1..Len(fetchResults) :
        /\ fetchResults[j].kind = "resolved"
        /\ fetchResults[j].status = 200
        /\ fetchResults[j].body}}

\* C34: in every state this.internalLinks and this.externalLinks have the
\* same keys, every key is in visitedUrls and has the recorded status 200;
\* once crawl has returned the keys are exactly the URLs whose fetch gave
\* status 200 and a non-empty body, and no URL of a brokenLinks entry is a
\* key.
LinkMapsKeys ==
    /\ DOMAIN internalLinks = DOMAIN externalLinks
    /\ DOMAIN internalLinks \subseteq visitedUrls
    /\ \A url \in DOMAIN internalLinks :
          url \in DOMAIN statusCodes /\ statusCodes[url] = 200
    /\ phase # "crawl" =>
          /\ DOMAIN internalLinks = ParsedUrls
          /\ \A i \in 1..Len(brokenLinks) : brokenLinks[i].url \notin DOMAIN internalLinks

\* crawl returned after a crawl of a parsed page, a page without a body and
\* a broken link
LinkMapsAfterMixedCrawl ==
    /\ phase = "crawled"
    /\ Len(brokenLinks) = 1
    /\ DOMAIN internalLinks # {}
    /\ \E url \in visitedUrls :
          /\ url \in DOMAIN statusCodes /\ statusCodes[url] = 200
          /\ url \notin DOMAIN internalLinks

(***************************************************************************)
(* The lists of extractLinks and the test of the loop of crawl.            *)
(***************************************************************************)
\* C35: every URL in a list of this.internalLinks is one the loop of crawl
\* takes as internal, isInternalUrl of the normalized URL, and every URL in
\* a list of this.externalLinks is one it takes as external.
ListedAsTheLoopTreats ==
    \A page \in DOMAIN internalLinks \cap DOMAIN externalLinks :
        /\ \A i \in 1..Len(internalLinks[page]) : isInternalUrl(internalLinks[page][i])
        /\ \A i \in 1..Len(externalLinks[page]) : ~isInternalUrl(externalLinks[page][i])

(***************************************************************************)
(* The crawl state during the sitemap steps and the report.                *)
(***************************************************************************)
\* the positions of analyze from the return of crawl to generateReport
AfterCrawl == phase \in {"crawled", "sitemapindex", "compare", "compared"}

\* C36: no step of fetchSitemap, parseSitemap, processSitemapIndex,
\* processSitemap, compareCrawlWithSitemap or generateReport changes
\* visitedUrls, staticResources, brokenLinks, statusCodes or a map kept per
\* page; a GET of a sitemap or of a sub-sitemap that fails adds no entry to
\* brokenLinks and no status.
CrawlStateUntouched ==
    [][AfterCrawl => UNCHANGED crawlState]_vars

\* analyze returned after the GET of a sub-sitemap failed, and brokenLinks
\* is what the crawl left
ReportAfterFailedSubSitemap ==
    /\ phase = "returned"
    /\ LocOne \in DOMAIN sitemaps /\ sitemaps[LocOne].kind = "unreachable"
    /\ Len(brokenLinks) = 1
    /\ report.crawlStats.brokenLinks = 1
    /\ LocOne \notin DOMAIN statusCodes

====
